---- MODULE Spec2Model ----
(***************************************************************************)
(* School-records manager: the in-memory entity graph (Student, Instructor,*)
(* Course with bidirectional links), its JSON codec, the SQLite repository *)
(* and the DatabaseManager.                                                 *)
(*                                                                          *)
(* Python lists are sequences; object identity of an entity is its id       *)
(* string (one object per id); Python's None is the string "None".          *)
(***************************************************************************)
EXTENDS Integers, Sequences, FiniteSets, TLC

VARIABLES
    \* ---- entity graph (src/src/models) ----
    constructed,          \* the Course objects constructed so far
    enrolled_students,    \* Course.enrolled_students   : course  -> list of students
    registered_courses,   \* Student.registered_courses : student -> list of courses
    assigned_courses,     \* Instructor.assigned_courses: instr.  -> list of courses
    instructor,           \* Course.instructor          : course  -> instructor or None
    last,                 \* the public call that ran last, with what it saw on entry
    _email,               \* Person._email             : person  -> the stored email
    \* ---- step-wise execution of one relationship call ----
    pc,                   \* the line the running call stands before, or "idle"
    frame,                \* the running call's self, argument and local "old"
    \* ---- JSON codec (src/src/persistence/json_store.py) ----
    files,                \* the file system: path -> content, or Absent
    save,                 \* the running save_to_json: its line, data and path
    jphase,               \* "build", then "saved" after a save, "loaded" after a load
    loaded,               \* what load_from_json returned
    \* ---- SQLite repository (src/db/sqlite_repo.py) ----
    db,                   \* the four tables and the connection's state
    db_last,              \* the repository call that ran last, with its outcome
    \* ---- DatabaseManager (src/database.py) ----
    dm,                   \* the four tables of the manager's database file
    dm_last               \* the manager call that ran last, with its outcome

None == "None"

Students    == {"S001", "S002"}
Instructors == {"I100", "I200"}
Courses     == {"EECE435", "EECE455"}

graphvars == <<constructed, enrolled_students, registered_courses,
               assigned_courses, instructor>>
stepvars  == <<pc, frame>>
jsonvars  == <<files, save, jphase, loaded>>
dbvars    == <<db, db_last, dm, dm_last>>
vars == <<graphvars, last, _email, stepvars, jsonvars, dbvars>>

-----------------------------------------------------------------------------
(* Python list primitives *)

\* x in lst
InList(x, lst) == \E k \in 1..Len(lst) : lst[k] = x

\* lst.append(x)
Append_(lst, x) == Append(lst, x)

\* what a list becomes in the model when list.remove raises ValueError
ValueError == <<"ValueError">>

\* lst.remove(x): drops the first occurrence; raises ValueError when x is absent
ListRemove(lst, x) ==
    IF ~InList(x, lst) THEN ValueError
    ELSE LET k == CHOOSE j \in 1..Len(lst) :
                      lst[j] = x /\ \A h \in 1..(j-1) : lst[h] # x
         IN  SubSeq(lst, 1, k-1) \o SubSeq(lst, k+1, Len(lst))

\* how many times x occurs in lst
Count(x, lst) == Cardinality({k \in 1..Len(lst) : lst[k] = x})

NoDup(lst) == \A j, k \in 1..Len(lst) : lst[j] = lst[k] => j = k

-----------------------------------------------------------------------------
(* The entity graph as a value, and the relationship methods as functions  *)
(* from graph to graph.                                                     *)

\* every Student and Instructor freshly constructed, no Course yet
EmptyGraph ==
    [enrolled_students  |-> [c \in Courses |-> <<>>],
     registered_courses |-> [s \in Students |-> <<>>],
     assigned_courses   |-> [i \in Instructors |-> <<>>],
     instructor         |-> [c \in Courses |-> None]]

G == [enrolled_students  |-> enrolled_students,
      registered_courses |-> registered_courses,
      assigned_courses   |-> assigned_courses,
      instructor         |-> instructor]

\* Course._add_student_local
Course_add_student_local(g, c, s) ==
    [g EXCEPT !.enrolled_students[c] = Append_(@, s)]

\* Student._add_course_local
Student_add_course_local(g, s, c) ==
    [g EXCEPT !.registered_courses[s] = Append_(@, c)]

\* Instructor._add_course_local
Instructor_add_course_local(g, i, c) ==
    [g EXCEPT !.assigned_courses[i] = Append_(@, c)]

\* Course._set_instructor_local
Course_set_instructor_local(g, c, i) ==
    [g EXCEPT !.instructor[c] = i]

\* a slip: the duplicate guard is dropped
Course_add_student_noguard(g, c, s) ==
    LET g1 == Course_add_student_local(g, c, s)
    IN  IF ~InList(c, g1.registered_courses[s])
        THEN Student_add_course_local(g1, s, c) ELSE g1

\* Course.add_student
Course_add_student(g, c, s) ==
    IF ~InList(s, g.enrolled_students[c])
    THEN LET g1 == Course_add_student_local(g, c, s)
         IN  IF ~InList(c, g1.registered_courses[s])
             THEN Student_add_course_local(g1, s, c) ELSE g1
    ELSE g

\* a slip: the student's side is left alone
Course_remove_student_oneside(g, c, s) ==
    IF InList(s, g.enrolled_students[c])
    THEN [g EXCEPT !.enrolled_students[c] = ListRemove(@, s)]
    ELSE g

\* Course.remove_student
Course_remove_student(g, c, s) ==
    IF InList(s, g.enrolled_students[c])
    THEN LET g1 == [g EXCEPT !.enrolled_students[c] = ListRemove(@, s)]
         IN  IF InList(c, g1.registered_courses[s])
             THEN [g1 EXCEPT !.registered_courses[s] = ListRemove(@, c)]
             ELSE g1
    ELSE g

\* a slip: the new course goes to the front of the student's list
Student_register_course_front(g, s, c) ==
    IF ~InList(c, g.registered_courses[s])
    THEN LET g1 == [g EXCEPT !.registered_courses[s] = <<c>> \o @]
         IN  IF ~InList(s, g1.enrolled_students[c])
             THEN Course_add_student_local(g1, c, s) ELSE g1
    ELSE g

\* Student.register_course
Student_register_course(g, s, c) ==
    IF ~InList(c, g.registered_courses[s])
    THEN LET g1 == Student_add_course_local(g, s, c)
         IN  IF ~InList(s, g1.enrolled_students[c])
             THEN Course_add_student_local(g1, c, s) ELSE g1
    ELSE g

\* a slip: the course's side is left alone
Student_unregister_course_oneside(g, s, c) ==
    IF InList(c, g.registered_courses[s])
    THEN [g EXCEPT !.registered_courses[s] = ListRemove(@, c)]
    ELSE g

\* Student.unregister_course
Student_unregister_course(g, s, c) ==
    IF InList(c, g.registered_courses[s])
    THEN LET g1 == [g EXCEPT !.registered_courses[s] = ListRemove(@, c)]
         IN  IF InList(s, g1.enrolled_students[c])
             THEN [g1 EXCEPT !.enrolled_students[c] = ListRemove(@, s)]
             ELSE g1
    ELSE g

\* a slip: the previous instructor loses every course
Course_set_instructor_clear_old(g, c, i) ==
    IF i = g.instructor[c] THEN g
    ELSE LET old == g.instructor[c]
             g1  == IF old # None THEN [g EXCEPT !.assigned_courses[old] = <<>>] ELSE g
         IN  IF i = None THEN [g1 EXCEPT !.instructor[c] = None]
             ELSE LET g2 == Course_set_instructor_local(g1, c, i)
                  IN  IF ~InList(c, g2.assigned_courses[i])
                      THEN Instructor_add_course_local(g2, i, c) ELSE g2

\* a slip: the previous instructor keeps the course
Course_set_instructor_nocleanup(g, c, i) ==
    IF i = g.instructor[c] THEN g
    ELSE IF i = None THEN [g EXCEPT !.instructor[c] = None]
    ELSE LET g1 == Course_set_instructor_local(g, c, i)
         IN  IF ~InList(c, g1.assigned_courses[i])
             THEN Instructor_add_course_local(g1, i, c) ELSE g1

\* Course.set_instructor
Course_set_instructor(g, c, i) ==
    IF i = g.instructor[c] THEN g
    ELSE LET old == g.instructor[c] IN
         IF i = None
         THEN LET g1 == IF old # None /\ InList(c, g.assigned_courses[old])
                        THEN [g EXCEPT !.assigned_courses[old] = ListRemove(@, c)]
                        ELSE g
              IN  [g1 EXCEPT !.instructor[c] = None]
         ELSE LET g1 == Course_set_instructor_local(g, c, i)
                  g2 == IF ~InList(c, g1.assigned_courses[i])
                        THEN Instructor_add_course_local(g1, i, c) ELSE g1
              IN  IF old # None /\ old # i /\ InList(c, g2.assigned_courses[old])
                  THEN [g2 EXCEPT !.assigned_courses[old] = ListRemove(@, c)]
                  ELSE g2

\* a slip: the course's pointer moves but the previous instructor keeps the course
Instructor_assign_course_nocleanup(g, i, c) ==
    LET g1 == IF ~InList(c, g.assigned_courses[i])
              THEN Instructor_add_course_local(g, i, c) ELSE g
    IN  IF g1.instructor[c] # i
        THEN Course_set_instructor_local(g1, c, i) ELSE g1

\* Instructor.assign_course
Instructor_assign_course(g, i, c) ==
    LET g1 == IF ~InList(c, g.assigned_courses[i])
              THEN Instructor_add_course_local(g, i, c) ELSE g
    IN  IF g1.instructor[c] # i
        THEN LET old == g1.instructor[c]
                 g2  == Course_set_instructor_local(g1, c, i)
             IN  IF old # None /\ old # i /\ InList(c, g2.assigned_courses[old])
                 THEN [g2 EXCEPT !.assigned_courses[old] = ListRemove(@, c)]
                 ELSE g2
        ELSE g1

\* Course.__init__ with valid id and name: the fresh object's fields, then the
\* wiring of the initial instructor (None: no wiring)
Course_init(g, c, i) ==
    LET g0 == [g EXCEPT !.instructor[c] = None, !.enrolled_students[c] = <<>>]
    IN  IF i # None
        THEN LET g1 == Course_set_instructor_local(g0, c, i)
             IN  IF ~InList(c, g1.assigned_courses[i])
                 THEN Instructor_add_course_local(g1, i, c) ELSE g1
        ELSE g0

-----------------------------------------------------------------------------
(* JSON codec: to_dict / from_dict, save_to_json's document and            *)
(* load_from_json's passes.  A document lists one dict per entity; the     *)
(* Person scalars (name, age, email) are valid constants of each entity    *)
(* and are left out: the dicts carry the id and the id-only references.    *)

_SCHEMA_VERSION == 1

\* validators.norm_id on ids that passed validation: strip() drops the
\* padding (upper() changes nothing, the id patterns admit capitals only)
norm_id(raw) ==
    CASE raw = " S001 " -> "S001"
      [] raw = " I100 " -> "I100"
      [] raw = " EECE435 " -> "EECE435"
      [] OTHER -> raw

\* EMAIL_RE.fullmatch(v.strip()): local part, "@", domain with a dot
is_valid_email(v) ==
    v \in {"alice@example.com", "bob@example.com", " Bob@Example.COM "}

\* validators.norm_email: strip() and lower()
norm_email(raw) ==
    CASE raw = " Bob@Example.COM " -> "bob@example.com"
      [] OTHER -> raw

\* Person.__init__, line 80: every Student and Instructor is constructed
\* with a valid email, stored normalized
NewPersons == [p \in Students \cup Instructors |-> norm_email("alice@example.com")]

\* a slip: the value is stored as given
Person_set_email_raw(stored, value) ==
    IF ~is_valid_email(value) THEN [email |-> stored, exc |-> "ValueError"]
    ELSE [email |-> value, exc |-> "ok"]

\* Person.email setter: the guard, then the normalized value
Person_set_email(stored, value) ==
    IF ~is_valid_email(value) THEN [email |-> stored, exc |-> "ValueError"]
    ELSE [email |-> norm_email(value), exc |-> "ok"]

\* a slip: the references are not serialized
IdsOf_none(lst) == <<>>

\* [x.<id> for x in lst]: an object is named by its normalized id
IdsOf(lst) == [k \in 1..Len(lst) |-> norm_id(lst[k])]

\* Student.to_dict
Student_to_dict(g, s) ==
    [student_id |-> norm_id(s),
     registered_course_ids |-> IdsOf(g.registered_courses[s])]

\* Instructor.to_dict
Instructor_to_dict(g, i) ==
    [instructor_id |-> norm_id(i),
     assigned_course_ids |-> IdsOf(g.assigned_courses[i])]

\* Course.to_dict
Course_to_dict(g, c) ==
    [course_id |-> norm_id(c),
     instructor_id |-> IF g.instructor[c] # None
                       THEN norm_id(g.instructor[c]) ELSE None,
     enrolled_student_ids |-> IdsOf(g.enrolled_students[c])]

\* save_to_json, lines 53-58: the payload for the given iterables
save_data(g, ss, is, cs) ==
    [schema_version |-> _SCHEMA_VERSION,
     students    |-> [k \in 1..Len(ss) |-> Student_to_dict(g, ss[k])],
     instructors |-> [k \in 1..Len(is) |-> Instructor_to_dict(g, is[k])],
     courses     |-> [k \in 1..Len(cs) |-> Course_to_dict(g, cs[k])]]

\* Student.from_dict / Instructor.from_dict / Course.from_dict: the new
\* object, named by its normalized id, with no links
Student_from_dict(sd)    == norm_id(sd.student_id)
Instructor_from_dict(idd) == norm_id(idd.instructor_id)
Course_from_dict(cd)     == norm_id(cd.course_id)

\* dict.get(key): the object, or None
Get(by_id, key) == IF key \in by_id THEN key ELSE None

\* a slip: the pass stops at the first id that does not resolve
RECURSIVE Load_registered_break(_, _, _, _, _)
Load_registered_break(g, s, ids, k, courses_by_id) ==
    IF k > Len(ids) THEN g
    ELSE LET c == Get(courses_by_id, ids[k])
         IN  IF s # None /\ c # None
             THEN Load_registered_break(Course_add_student(g, c, s),
                                        s, ids, k + 1, courses_by_id)
             ELSE g

\* load_from_json, lines 109-112: one student's registered_course_ids
RECURSIVE Load_registered(_, _, _, _, _)
Load_registered(g, s, ids, k, courses_by_id) ==
    IF k > Len(ids) THEN g
    ELSE LET c == Get(courses_by_id, ids[k])
         IN  Load_registered(IF s # None /\ c # None
                             THEN Course_add_student(g, c, s) ELSE g,
                             s, ids, k + 1, courses_by_id)

\* load_from_json, lines 107-112: pass 2
RECURSIVE Load_pass2(_, _, _, _, _)
Load_pass2(g, sds, k, students_by_id, courses_by_id) ==
    IF k > Len(sds) THEN g
    ELSE Load_pass2(Load_registered(g, Get(students_by_id, sds[k].student_id),
                                    sds[k].registered_course_ids, 1, courses_by_id),
                    sds, k + 1, students_by_id, courses_by_id)

\* a slip: pass 3 appends to the course's list without the duplicate guard
RECURSIVE Load_enrolled_local(_, _, _, _, _)
Load_enrolled_local(g, c, ids, k, students_by_id) ==
    IF k > Len(ids) THEN g
    ELSE LET s == Get(students_by_id, ids[k])
         IN  Load_enrolled_local(IF c # None /\ s # None
                                 THEN Course_add_student_local(g, c, s) ELSE g,
                                 c, ids, k + 1, students_by_id)

\* load_from_json, lines 122-125: one course's enrolled_student_ids
RECURSIVE Load_enrolled(_, _, _, _, _)
Load_enrolled(g, c, ids, k, students_by_id) ==
    IF k > Len(ids) THEN g
    ELSE LET s == Get(students_by_id, ids[k])
         IN  Load_enrolled(IF c # None /\ s # None
                           THEN Course_add_student(g, c, s) ELSE g,
                           c, ids, k + 1, students_by_id)

\* load_from_json, lines 116-121: one course's instructor_id
Load_instructor(g, c, iid, instructors_by_id) ==
    IF c # None /\ iid # None /\ iid # ""
    THEN LET ins == Get(instructors_by_id, iid)
         IN  IF ins # None THEN Course_set_instructor(g, c, ins) ELSE g
    ELSE g

\* load_from_json, lines 115-125: pass 3
RECURSIVE Load_pass3(_, _, _, _, _, _)
Load_pass3(g, cds, k, students_by_id, instructors_by_id, courses_by_id) ==
    IF k > Len(cds) THEN g
    ELSE LET c  == Get(courses_by_id, cds[k].course_id)
             g1 == Load_instructor(g, c, cds[k].instructor_id, instructors_by_id)
             g2 == Load_enrolled(g1, c, cds[k].enrolled_student_ids, 1, students_by_id)
         IN  Load_pass3(g2, cds, k + 1, students_by_id, instructors_by_id, courses_by_id)

\* a slip: pass 4 appends to the instructor's list and leaves the course alone
RECURSIVE Load_assigned_local(_, _, _, _, _)
Load_assigned_local(g, i, ids, k, courses_by_id) ==
    IF k > Len(ids) THEN g
    ELSE LET c == Get(courses_by_id, ids[k])
         IN  Load_assigned_local(IF i # None /\ c # None
                                 THEN Instructor_add_course_local(g, i, c) ELSE g,
                                 i, ids, k + 1, courses_by_id)

\* load_from_json, lines 130-133: one instructor's assigned_course_ids
RECURSIVE Load_assigned(_, _, _, _, _)
Load_assigned(g, i, ids, k, courses_by_id) ==
    IF k > Len(ids) THEN g
    ELSE LET c == Get(courses_by_id, ids[k])
         IN  Load_assigned(IF i # None /\ c # None
                           THEN Instructor_assign_course(g, i, c) ELSE g,
                           i, ids, k + 1, courses_by_id)

\* load_from_json, lines 128-133: pass 4
RECURSIVE Load_pass4(_, _, _, _, _)
Load_pass4(g, idds, k, instructors_by_id, courses_by_id) ==
    IF k > Len(idds) THEN g
    ELSE Load_pass4(Load_assigned(g, Get(instructors_by_id, idds[k].instructor_id),
                                  idds[k].assigned_course_ids, 1, courses_by_id),
                    idds, k + 1, instructors_by_id, courses_by_id)

\* load_from_json, lines 89-135, on a parsed document: the three dicts (their
\* key sets; the objects are fresh) and the graph the passes wire
load_document(data) ==
    LET students_by_id    == {Student_from_dict(data.students[k]) :
                                  k \in 1..Len(data.students)}
        instructors_by_id == {Instructor_from_dict(data.instructors[k]) :
                                  k \in 1..Len(data.instructors)}
        courses_by_id     == {Course_from_dict(data.courses[k]) :
                                  k \in 1..Len(data.courses)}
        g2 == Load_pass2(EmptyGraph, data.students, 1, students_by_id, courses_by_id)
        g3 == Load_pass3(g2, data.courses, 1, students_by_id, instructors_by_id,
                         courses_by_id)
        g4 == Load_pass4(g3, data.instructors, 1, instructors_by_id, courses_by_id)
    IN  [status |-> "ok", students |-> students_by_id,
         instructors |-> instructors_by_id, courses |-> courses_by_id,
         graph |-> g4]

(* Files.  A file's content is the first len of the NumChunks chunks of    *)
(* the text json.dumps gives for data; it parses iff all chunks are there. *)

NumChunks == 2

DestPath == "school.json"

\* a slip: the text is written to the destination itself
TmpPath_same(p) == p

\* p.with_suffix(p.suffix + ".tmp")
TmpPath(p) == p \o ".tmp"

Paths == {DestPath, TmpPath(DestPath)}

NoData == [schema_version |-> 0, students |-> <<>>, instructors |-> <<>>,
           courses |-> <<>>]

Absent == [exists |-> FALSE, data |-> NoData, len |-> 0]

Complete(data) == [exists |-> TRUE, data |-> data, len |-> NumChunks]

IsComplete(content) == content.exists /\ content.len = NumChunks

NotLoaded == [status |-> "none", students |-> {}, instructors |-> {},
              courses |-> {}, graph |-> EmptyGraph]

Raised(exc) == [NotLoaded EXCEPT !.status = exc]

\* load_from_json, lines 86-87 and then the passes
load_from_json(content) ==
    IF ~content.exists THEN Raised("FileNotFoundError")
    ELSE IF ~IsComplete(content) THEN Raised("JSONDecodeError")
    ELSE load_document(content.data)

NoSave == [pc |-> "idle", data |-> NoData, path |-> DestPath, before |-> Absent]

-----------------------------------------------------------------------------
(* SQLite repository: the four tables of init_db's schema as sets of rows, *)
(* and the connection's two flags.  sqlite3 opens a transaction before an  *)
(* INSERT / UPDATE / DELETE and keeps it open until commit() or            *)
(* rollback(); PRAGMA foreign_keys does nothing inside a transaction.      *)

DbStudentIds    == {"S001", "S002"}
DbInstructorIds == {"I001"}
DbCourseIds     == {"CSE101"}
Names  == {"Alice", "Bob"}
Ages   == {20}
Emails == {"alice@example.com"}

\* None for an int-typed argument
NoneInt == -1

\* the truth value Python gives a str-or-None argument
Truthy(v) == v # None /\ v # ""

\* init_db then SQLiteRepository.__init__: empty tables, foreign keys on
NewRepository ==
    [STUDENTS |-> {}, INSTRUCTORS |-> {}, COURSES |-> {}, REGISTRATION |-> {},
     foreign_keys |-> TRUE, in_transaction |-> FALSE]

NoDbCall == [op |-> "none", a |-> None, b |-> None, result |-> "ok"]

Ok(d)     == [db |-> d, exc |-> "ok"]
Err(d, e) == [db |-> d, exc |-> e]

\* sqlite3's implicit BEGIN before a data-changing statement
Sql_begin(d) == [d EXCEPT !.in_transaction = TRUE]

\* conn.commit()
Sql_commit(d) == [d EXCEPT !.in_transaction = FALSE]

\* a slip: rollback only closes the transaction
Sql_rollback_keep(d, began) == [d EXCEPT !.in_transaction = FALSE]

\* conn.rollback(): the tables as they were when the transaction began; the
\* pragma's setting is not part of the transaction
Sql_rollback(d, began) ==
    [began EXCEPT !.foreign_keys = d.foreign_keys, !.in_transaction = FALSE]

\* PRAGMA foreign_keys = ON / OFF: a no-op inside a transaction
Sql_pragma_foreign_keys(d, on) ==
    IF d.in_transaction THEN d ELSE [d EXCEPT !.foreign_keys = on]

\* INSERT INTO STUDENTS: primary key student_id, NOT NULL columns
Sql_insert_student(d0, row) ==
    LET d == Sql_begin(d0) IN
    IF \/ \E r \in d.STUDENTS : r.student_id = row.student_id
       \/ row.name = None \/ row.email = None \/ row.age = NoneInt
    THEN Err(d, "IntegrityError")
    ELSE Ok([d EXCEPT !.STUDENTS = @ \cup {row}])

\* INSERT INTO INSTRUCTORS: primary key instructor_id, NOT NULL columns
Sql_insert_instructor(d0, row) ==
    LET d == Sql_begin(d0) IN
    IF \/ \E r \in d.INSTRUCTORS : r.instructor_id = row.instructor_id
       \/ row.name = None \/ row.email = None \/ row.age = NoneInt
    THEN Err(d, "IntegrityError")
    ELSE Ok([d EXCEPT !.INSTRUCTORS = @ \cup {row}])

\* INSERT INTO COURSES: primary key course_id; i_id references INSTRUCTORS
Sql_insert_course(d0, row) ==
    LET d == Sql_begin(d0) IN
    IF \/ \E r \in d.COURSES : r.course_id = row.course_id
       \/ row.course_name = None
       \/ /\ d.foreign_keys
          /\ row.i_id # None
          /\ ~\E r \in d.INSTRUCTORS : r.instructor_id = row.i_id
    THEN Err(d, "IntegrityError")
    ELSE Ok([d EXCEPT !.COURSES = @ \cup {row}])

\* INSERT OR IGNORE INTO REGISTRATION: a duplicate pair is ignored, a
\* foreign-key violation is not
Sql_insert_or_ignore_registration(d0, row) ==
    LET d == Sql_begin(d0) IN
    IF row \in d.REGISTRATION THEN Ok(d)
    ELSE IF /\ d.foreign_keys
            /\ \/ ~\E r \in d.STUDENTS : r.student_id = row.s_id
               \/ ~\E r \in d.COURSES : r.course_id = row.c_id
    THEN Err(d, "IntegrityError")
    ELSE Ok([d EXCEPT !.REGISTRATION = @ \cup {row}])

\* DELETE FROM STUDENTS [WHERE student_id=?]; ON DELETE CASCADE on
\* REGISTRATION.s_id when foreign keys are enforced
Sql_delete_students(d0, ids) ==
    LET d == Sql_begin(d0) IN
    [d EXCEPT !.STUDENTS = {r \in @ : r.student_id \notin ids},
              !.REGISTRATION = IF d.foreign_keys
                               THEN {r \in @ : r.s_id \notin ids} ELSE @]

\* DELETE FROM INSTRUCTORS [WHERE instructor_id=?]; ON DELETE SET NULL on
\* COURSES.i_id when foreign keys are enforced
Sql_delete_instructors(d0, ids) ==
    LET d == Sql_begin(d0) IN
    [d EXCEPT !.INSTRUCTORS = {r \in @ : r.instructor_id \notin ids},
              !.COURSES = IF d.foreign_keys
                          THEN {IF r.i_id \in ids THEN [r EXCEPT !.i_id = None] ELSE r :
                                    r \in @}
                          ELSE @]

\* DELETE FROM COURSES [WHERE course_id=?]; ON DELETE CASCADE on
\* REGISTRATION.c_id when foreign keys are enforced
Sql_delete_courses(d0, ids) ==
    LET d == Sql_begin(d0) IN
    [d EXCEPT !.COURSES = {r \in @ : r.course_id \notin ids},
              !.REGISTRATION = IF d.foreign_keys
                               THEN {r \in @ : r.c_id \notin ids} ELSE @]

\* DELETE FROM REGISTRATION [WHERE s_id=? AND c_id=?]
Sql_delete_registrations(d0, rows) ==
    LET d == Sql_begin(d0) IN [d EXCEPT !.REGISTRATION = @ \ rows]

\* SQLiteRepository.get_student / get_course: the row, or none
HasStudent(d, id) == \E r \in d.STUDENTS : r.student_id = id
HasCourse(d, id)  == \E r \in d.COURSES : r.course_id = id

\* SQLiteRepository.get_registrations
get_registrations(d, s_id, c_id) ==
    {r \in d.REGISTRATION : /\ Truthy(s_id) => r.s_id = s_id
                            /\ Truthy(c_id) => r.c_id = c_id}

\* SQLiteRepository.add_student
Repo_add_student(d, student_id, name, age, email) ==
    LET r == Sql_insert_student(d, [student_id |-> student_id, name |-> name,
                                    age |-> age, email |-> email])
    IN  IF r.exc = "ok" THEN Ok(Sql_commit(r.db)) ELSE r

\* a slip: every column is written, supplied or not
Repo_update_student_all(d, student_id, name, age, email) ==
    Ok(Sql_commit([Sql_begin(d) EXCEPT !.STUDENTS =
        {IF r.student_id = student_id
         THEN [r EXCEPT !.name = name, !.age = age, !.email = email]
         ELSE r : r \in @}]))

\* SQLiteRepository.update_student
Repo_update_student(d, student_id, name, age, email) ==
    IF ~Truthy(name) /\ age = NoneInt /\ ~Truthy(email) THEN Ok(d)
    ELSE LET d1 == Sql_begin(d)
             upd(r) == [r EXCEPT !.name  = IF Truthy(name) THEN name ELSE @,
                                 !.age   = IF age # NoneInt THEN age ELSE @,
                                 !.email = IF Truthy(email) THEN email ELSE @]
         IN  Ok(Sql_commit([d1 EXCEPT !.STUDENTS =
                 {IF r.student_id = student_id THEN upd(r) ELSE r : r \in @}]))

\* SQLiteRepository.delete_student
Repo_delete_student(d, student_id) ==
    Ok(Sql_commit(Sql_delete_students(d, {student_id})))

\* SQLiteRepository.add_instructor
Repo_add_instructor(d, instructor_id, name, age, email) ==
    LET r == Sql_insert_instructor(d, [instructor_id |-> instructor_id,
                                       name |-> name, age |-> age, email |-> email])
    IN  IF r.exc = "ok" THEN Ok(Sql_commit(r.db)) ELSE r

\* SQLiteRepository.update_instructor
Repo_update_instructor(d, instructor_id, name, age, email) ==
    IF ~Truthy(name) /\ age = NoneInt /\ ~Truthy(email) THEN Ok(d)
    ELSE LET d1 == Sql_begin(d)
             upd(r) == [r EXCEPT !.name  = IF Truthy(name) THEN name ELSE @,
                                 !.age   = IF age # NoneInt THEN age ELSE @,
                                 !.email = IF Truthy(email) THEN email ELSE @]
         IN  Ok(Sql_commit([d1 EXCEPT !.INSTRUCTORS =
                 {IF r.instructor_id = instructor_id THEN upd(r) ELSE r : r \in @}]))

\* SQLiteRepository.delete_instructor
Repo_delete_instructor(d, instructor_id) ==
    Ok(Sql_commit(Sql_delete_instructors(d, {instructor_id})))

\* SQLiteRepository.add_course
Repo_add_course(d, course_id, course_name, i_id) ==
    LET r == Sql_insert_course(d, [course_id |-> course_id,
                                   course_name |-> course_name, i_id |-> i_id])
    IN  IF r.exc = "ok" THEN Ok(Sql_commit(r.db)) ELSE r

\* SQLiteRepository.update_course: the UPDATE fails when it gives an existing
\* row an i_id with no INSTRUCTORS row while foreign keys are enforced
Repo_update_course(d, course_id, course_name, i_id) ==
    IF ~Truthy(course_name) /\ i_id = None THEN Ok(d)
    ELSE LET d1 == Sql_begin(d)
             upd(r) == [r EXCEPT !.course_name = IF Truthy(course_name)
                                                 THEN course_name ELSE @,
                                 !.i_id = IF i_id # None THEN i_id ELSE @]
         IN  IF /\ d1.foreign_keys
                /\ i_id # None
                /\ HasCourse(d1, course_id)
                /\ ~\E r \in d1.INSTRUCTORS : r.instructor_id = i_id
             THEN Err(d1, "IntegrityError")
             ELSE Ok(Sql_commit([d1 EXCEPT !.COURSES =
                     {IF r.course_id = course_id THEN upd(r) ELSE r : r \in @}]))

\* SQLiteRepository.delete_course
Repo_delete_course(d, course_id) ==
    Ok(Sql_commit(Sql_delete_courses(d, {course_id})))

\* a slip: the two existence checks are dropped
Repo_register_student_nocheck(d, s_id, c_id) ==
    LET r == Sql_insert_or_ignore_registration(d, [s_id |-> s_id, c_id |-> c_id])
    IN  IF r.exc = "ok" THEN Ok(Sql_commit(r.db)) ELSE r

\* SQLiteRepository.register_student
Repo_register_student(d, s_id, c_id) ==
    IF ~HasStudent(d, s_id) THEN Err(d, "ValueError")
    ELSE IF ~HasCourse(d, c_id) THEN Err(d, "ValueError")
    ELSE LET r == Sql_insert_or_ignore_registration(d, [s_id |-> s_id, c_id |-> c_id])
         IN  IF r.exc = "ok" THEN Ok(Sql_commit(r.db)) ELSE r

\* SQLiteRepository.unregister_student
Repo_unregister_student(d, s_id, c_id) ==
    Ok(Sql_commit(Sql_delete_registrations(d, {[s_id |-> s_id, c_id |-> c_id]})))

\* import_from_json, lines 510-514
RECURSIVE Import_students(_, _, _)
Import_students(d, rows, k) ==
    IF k > Len(rows) THEN Ok(d)
    ELSE LET r == Sql_insert_student(d, rows[k])
         IN  IF r.exc = "ok" THEN Import_students(r.db, rows, k + 1) ELSE r

\* import_from_json, lines 515-519
RECURSIVE Import_instructors(_, _, _)
Import_instructors(d, rows, k) ==
    IF k > Len(rows) THEN Ok(d)
    ELSE LET r == Sql_insert_instructor(d, rows[k])
         IN  IF r.exc = "ok" THEN Import_instructors(r.db, rows, k + 1) ELSE r

\* import_from_json, lines 520-524
RECURSIVE Import_courses(_, _, _)
Import_courses(d, rows, k) ==
    IF k > Len(rows) THEN Ok(d)
    ELSE LET r == Sql_insert_course(d, rows[k])
         IN  IF r.exc = "ok" THEN Import_courses(r.db, rows, k + 1) ELSE r

\* a slip: the registrations of the payload are not inserted
Import_registrations_skip(d, rows, k) == Ok(d)

\* import_from_json, lines 525-529
RECURSIVE Import_registrations(_, _, _)
Import_registrations(d, rows, k) ==
    IF k > Len(rows) THEN Ok(d)
    ELSE LET r == Sql_insert_or_ignore_registration(d, rows[k])
         IN  IF r.exc = "ok" THEN Import_registrations(r.db, rows, k + 1) ELSE r

\* SQLiteRepository.import_from_json on an existing, well-formed file
Repo_import_from_json(d, payload) ==
    LET d1 == Sql_pragma_foreign_keys(d, FALSE)
        d2 == Sql_delete_registrations(d1, d1.REGISTRATION)
        d3 == Sql_delete_courses(d2, {r.course_id : r \in d2.COURSES})
        d4 == Sql_delete_instructors(d3, {r.instructor_id : r \in d3.INSTRUCTORS})
        d5 == Sql_delete_students(d4, {r.student_id : r \in d4.STUDENTS})
        r1 == Import_students(d5, payload.students, 1)
        r2 == IF r1.exc = "ok" THEN Import_instructors(r1.db, payload.instructors, 1)
              ELSE r1
        r3 == IF r2.exc = "ok" THEN Import_courses(r2.db, payload.courses, 1) ELSE r2
        r4 == IF r3.exc = "ok"
              THEN Import_registrations(r3.db, payload.registrations, 1) ELSE r3
    IN  IF r4.exc = "ok"
        THEN [db |-> Sql_commit(Sql_pragma_foreign_keys(r4.db, TRUE)), exc |-> "True"]
        ELSE [db |-> Sql_rollback(r4.db, d), exc |-> "False"]

-----------------------------------------------------------------------------
(* DatabaseManager: the four tables of database.py's schema.  Every method *)
(* opens its own connection with foreign keys on and runs inside           *)
(* "with conn": the statements of a call are committed together, or rolled *)
(* back together when one of them raises.  The schema's foreign keys have  *)
(* no ON DELETE / ON UPDATE action, so a statement that would leave a      *)
(* child row without its parent fails.  A registrations row is known by    *)
(* its pair; the table maps each pair to the number of rows holding it.    *)

DmStudentIds    == {"S001", "S002"}
DmInstructorIds == {"I001", "I002"}
DmCourseIds     == {"CSE101", "CSE102"}
DmNames  == {"Alice"}
DmEmails == {"alice@example.com", "bob@example.com"}

\* DatabaseManager.__init__ / init_database: empty tables
NewManager ==
    [students |-> {}, instructors |-> {}, courses |-> {},
     registrations |-> [pr \in DmStudentIds \X DmCourseIds |-> 0]]

NoDmCall == [op |-> "none", a |-> None, result |-> "ok"]

\* the value a manager method returns from cursor.rowcount > 0
Bool(b) == IF b THEN "True" ELSE "False"

\* registrations rows that reference the student / the course
RegsOfStudent(m, s) == \E c \in DmCourseIds : m.registrations[<<s, c>>] > 0
RegsOfCourse(m, c)  == \E s \in DmStudentIds : m.registrations[<<s, c>>] > 0

\* DatabaseManager.create_student
DM_create_student(m, name, age, email, student_id) ==
    IF \E r \in m.students : r.email = email \/ r.student_id = student_id
    THEN Err(m, "IntegrityError")
    ELSE Ok([m EXCEPT !.students = @ \cup {[student_id |-> student_id, name |-> name,
                                            age |-> age, email |-> email]}])

\* DatabaseManager.update_student
DM_update_student(m, old_student_id, name, age, email, new_student_id) ==
    IF ~\E r \in m.students : r.student_id = old_student_id
    THEN [db |-> m, exc |-> "False"]
    ELSE IF \/ \E r \in m.students :
                  /\ r.student_id # old_student_id
                  /\ (r.email = email \/ r.student_id = new_student_id)
            \/ new_student_id # old_student_id /\ RegsOfStudent(m, old_student_id)
    THEN Err(m, "IntegrityError")
    ELSE [db |-> [m EXCEPT !.students =
                     {r \in @ : r.student_id # old_student_id}
                     \cup {[student_id |-> new_student_id, name |-> name,
                            age |-> age, email |-> email]}],
          exc |-> "True"]

\* DatabaseManager.delete_student
DM_delete_student(m, student_id) ==
    [db |-> [m EXCEPT !.registrations =
                 [pr \in DOMAIN @ |-> IF pr[1] = student_id THEN 0 ELSE @[pr]],
                      !.students = {r \in @ : r.student_id # student_id}],
     exc |-> Bool(\E r \in m.students : r.student_id = student_id)]

\* DatabaseManager.create_instructor
DM_create_instructor(m, name, age, email, instructor_id) ==
    IF \E r \in m.instructors : r.email = email \/ r.instructor_id = instructor_id
    THEN Err(m, "IntegrityError")
    ELSE Ok([m EXCEPT !.instructors = @ \cup {[instructor_id |-> instructor_id,
                                               name |-> name, age |-> age,
                                               email |-> email]}])

\* DatabaseManager.update_instructor: the UPDATE of instructors fails when it
\* changes an instructor_id that courses rows still reference, before the
\* UPDATE of courses runs; the value returned is the rowcount of the second
\* UPDATE
DM_update_instructor(m, old_instructor_id, name, age, email, new_instructor_id) ==
    LET refs == {c \in m.courses : c.instructor_id = old_instructor_id} IN
    IF ~\E r \in m.instructors : r.instructor_id = old_instructor_id
    THEN [db |-> m, exc |-> Bool(refs # {})]
    ELSE IF \/ \E r \in m.instructors :
                  /\ r.instructor_id # old_instructor_id
                  /\ (r.email = email \/ r.instructor_id = new_instructor_id)
            \/ new_instructor_id # old_instructor_id /\ refs # {}
    THEN Err(m, "IntegrityError")
    ELSE [db |-> [m EXCEPT !.instructors =
                     {r \in @ : r.instructor_id # old_instructor_id}
                     \cup {[instructor_id |-> new_instructor_id, name |-> name,
                            age |-> age, email |-> email]},
                           !.courses =
                     {IF c.instructor_id = old_instructor_id
                      THEN [c EXCEPT !.instructor_id = new_instructor_id] ELSE c :
                          c \in @}],
          exc |-> Bool(refs # {})]

\* a slip: the registrations of the instructor's courses are left behind
DM_delete_instructor_courses_only(m, instructor_id) ==
    [db |-> [m EXCEPT !.courses = {c \in @ : c.instructor_id # instructor_id},
                      !.instructors = {r \in @ : r.instructor_id # instructor_id}],
     exc |-> Bool(\E r \in m.instructors : r.instructor_id = instructor_id)]

\* DatabaseManager.delete_instructor
DM_delete_instructor(m, instructor_id) ==
    LET gone == {c.course_id : c \in {c \in m.courses : c.instructor_id = instructor_id}}
    IN  [db |-> [m EXCEPT !.registrations =
                     [pr \in DOMAIN @ |-> IF pr[2] \in gone THEN 0 ELSE @[pr]],
                          !.courses = {c \in @ : c.course_id \notin gone},
                          !.instructors = {r \in @ : r.instructor_id # instructor_id}],
         exc |-> Bool(\E r \in m.instructors : r.instructor_id = instructor_id)]

\* DatabaseManager.create_course
DM_create_course(m, course_id, course_name, instructor_id) ==
    IF \/ \E c \in m.courses : c.course_id = course_id
       \/ /\ instructor_id # None
          /\ ~\E r \in m.instructors : r.instructor_id = instructor_id
    THEN Err(m, "IntegrityError")
    ELSE Ok([m EXCEPT !.courses = @ \cup {[course_id |-> course_id,
                                           course_name |-> course_name,
                                           instructor_id |-> instructor_id]}])

\* DatabaseManager.update_course: the value returned is the rowcount of the
\* UPDATE of registrations
DM_update_course(m, old_course_id, course_id, course_name, instructor_id) ==
    IF ~\E c \in m.courses : c.course_id = old_course_id
    THEN [db |-> m, exc |-> "False"]
    ELSE IF \/ \E c \in m.courses : c.course_id # old_course_id /\ c.course_id = course_id
            \/ /\ instructor_id # None
               /\ ~\E r \in m.instructors : r.instructor_id = instructor_id
            \/ course_id # old_course_id /\ RegsOfCourse(m, old_course_id)
    THEN Err(m, "IntegrityError")
    ELSE [db |-> [m EXCEPT !.courses =
                     {c \in @ : c.course_id # old_course_id}
                     \cup {[course_id |-> course_id, course_name |-> course_name,
                            instructor_id |-> instructor_id]}],
          exc |-> Bool(course_id = old_course_id /\ RegsOfCourse(m, old_course_id))]

\* DatabaseManager.delete_course
DM_delete_course(m, course_id) ==
    [db |-> [m EXCEPT !.registrations =
                 [pr \in DOMAIN @ |-> IF pr[2] = course_id THEN 0 ELSE @[pr]],
                      !.courses = {c \in @ : c.course_id # course_id}],
     exc |-> Bool(\E c \in m.courses : c.course_id = course_id)]

\* a slip: the UNIQUE(student_id, course_id) constraint is not there
DM_register_student_nounique(m, student_id, course_id) ==
    IF \/ ~\E r \in m.students : r.student_id = student_id
       \/ ~\E c \in m.courses : c.course_id = course_id
    THEN [db |-> m, exc |-> "False"]
    ELSE [db |-> [m EXCEPT !.registrations[<<student_id, course_id>>] = @ + 1],
          exc |-> "True"]

\* DatabaseManager.register_student: sqlite3.IntegrityError is caught
DM_register_student(m, student_id, course_id) ==
    IF \/ m.registrations[<<student_id, course_id>>] > 0
       \/ ~\E r \in m.students : r.student_id = student_id
       \/ ~\E c \in m.courses : c.course_id = course_id
    THEN [db |-> m, exc |-> "False"]
    ELSE [db |-> [m EXCEPT !.registrations[<<student_id, course_id>>] = @ + 1],
          exc |-> "True"]

\* DatabaseManager.unregister_student
DM_unregister_student(m, student_id, course_id) ==
    [db |-> [m EXCEPT !.registrations[<<student_id, course_id>>] = 0],
     exc |-> Bool(m.registrations[<<student_id, course_id>>] > 0)]

-----------------------------------------------------------------------------
(* The public calls as atomic steps of a single-threaded program.          *)

SetGraph(g) ==
    /\ enrolled_students'  = g.enrolled_students
    /\ registered_courses' = g.registered_courses
    /\ assigned_courses'   = g.assigned_courses
    /\ instructor'         = g.instructor

\* what the call saw on entry: the course's instructor and whether the
\* student/course pair was linked on the course's side
Called(op, c, x) ==
    last' = [op |-> op, c |-> c, x |-> x,
             old |-> instructor[c],
             was |-> (x \in Students /\ InList(x, enrolled_students[c]))]

NoFrame == [course |-> None, instr |-> None, old |-> None]

NoCall == [op |-> "none", c |-> None, x |-> None, old |-> None, was |-> FALSE]

Init ==
    /\ constructed = {}
    /\ enrolled_students  = EmptyGraph.enrolled_students
    /\ registered_courses = EmptyGraph.registered_courses
    /\ assigned_courses   = EmptyGraph.assigned_courses
    /\ instructor         = EmptyGraph.instructor
    /\ last = NoCall
    /\ _email = NewPersons
    /\ pc = "idle"
    /\ frame = NoFrame
    /\ files = [p \in Paths |-> Absent]
    /\ save = NoSave
    /\ jphase = "build"
    /\ loaded = NotLoaded
    /\ db = NewRepository
    /\ db_last = NoDbCall
    /\ dm = NewManager
    /\ dm_last = NoDmCall

NewCourse(c, i) ==
    /\ c \notin constructed
    /\ constructed' = constructed \cup {c}
    /\ SetGraph(Course_init(G, c, i))
    /\ Called("Course", c, i)
    /\ UNCHANGED stepvars
    /\ UNCHANGED <<jsonvars, dbvars, _email>>

AddStudent(c, s) ==
    /\ c \in constructed
    /\ SetGraph(Course_add_student(G, c, s))
    /\ Called("add_student", c, s)
    /\ UNCHANGED <<constructed, stepvars>>
    /\ UNCHANGED <<jsonvars, dbvars, _email>>

RemoveStudent(c, s) ==
    /\ c \in constructed
    /\ SetGraph(Course_remove_student(G, c, s))
    /\ Called("remove_student", c, s)
    /\ UNCHANGED <<constructed, stepvars>>
    /\ UNCHANGED <<jsonvars, dbvars, _email>>

RegisterCourse(s, c) ==
    /\ c \in constructed
    /\ SetGraph(Student_register_course(G, s, c))
    /\ Called("register_course", c, s)
    /\ UNCHANGED <<constructed, stepvars>>
    /\ UNCHANGED <<jsonvars, dbvars, _email>>

UnregisterCourse(s, c) ==
    /\ c \in constructed
    /\ SetGraph(Student_unregister_course(G, s, c))
    /\ Called("unregister_course", c, s)
    /\ UNCHANGED <<constructed, stepvars>>
    /\ UNCHANGED <<jsonvars, dbvars, _email>>

SetInstructor(c, i) ==
    /\ c \in constructed
    /\ SetGraph(Course_set_instructor(G, c, i))
    /\ Called("set_instructor", c, i)
    /\ UNCHANGED <<constructed, stepvars>>
    /\ UNCHANGED <<jsonvars, dbvars, _email>>

AssignCourse(i, c) ==
    /\ c \in constructed
    /\ SetGraph(Instructor_assign_course(G, i, c))
    /\ Called("assign_course", c, i)
    /\ UNCHANGED <<constructed, stepvars>>
    /\ UNCHANGED <<jsonvars, dbvars, _email>>

Next ==
    \/ \E c \in Courses, i \in Instructors \cup {None} : NewCourse(c, i)
    \/ \E c \in Courses, s \in Students : AddStudent(c, s)
    \/ \E c \in Courses, s \in Students : RemoveStudent(c, s)
    \/ \E c \in Courses, s \in Students : RegisterCourse(s, c)
    \/ \E c \in Courses, s \in Students : UnregisterCourse(s, c)
    \/ \E c \in Courses, i \in Instructors \cup {None} : SetInstructor(c, i)
    \/ \E c \in Courses, i \in Instructors : AssignCourse(i, c)

Spec == Init /\ [][Next]_vars

-----------------------------------------------------------------------------
(* Course.set_instructor and Instructor.assign_course statement by         *)
(* statement: pc names the source line the call stands before, frame holds *)
(* its receiver, argument and local "old".  The other calls do not touch   *)
(* the instructor link and stay atomic.                                    *)

\* course.py 207-208: the previous instructor forgets the course
Course_set_instructor_cleanup(g, c, old, i) ==
    IF old # None /\ old # i /\ InList(c, g.assigned_courses[old])
    THEN [g EXCEPT !.assigned_courses[old] = ListRemove(@, c)]
    ELSE g

\* a slip: the removal is skipped
Instructor_assign_course_cleanup_skip(g, c, old, i) == g

\* instructor.py 130-131: the previous instructor forgets the course
Instructor_assign_course_cleanup(g, c, old, i) ==
    IF old # None /\ old # i /\ InList(c, g.assigned_courses[old])
    THEN [g EXCEPT !.assigned_courses[old] = ListRemove(@, c)]
    ELSE g

\* course.py 193-196: the identity test, old = self.instructor, the None test
SI_Call(c, i) ==
    /\ pc = "idle"
    /\ c \in constructed
    /\ Called("set_instructor", c, i)
    /\ IF i = instructor[c]
       THEN UNCHANGED stepvars
       ELSE /\ frame' = [course |-> c, instr |-> i, old |-> instructor[c]]
            /\ pc' = IF i = None THEN "si198" ELSE "si203"
    /\ UNCHANGED graphvars
    /\ UNCHANGED <<jsonvars, dbvars, _email>>

\* course.py 198-199
SI_198 ==
    /\ pc = "si198"
    /\ SetGraph(IF frame.old # None
                   /\ InList(frame.course, assigned_courses[frame.old])
                THEN [G EXCEPT !.assigned_courses[frame.old] =
                                   ListRemove(@, frame.course)]
                ELSE G)
    /\ pc' = "si200"
    /\ UNCHANGED <<constructed, last, frame>>
    /\ UNCHANGED <<jsonvars, dbvars, _email>>

\* course.py 200-201
SI_200 ==
    /\ pc = "si200"
    /\ SetGraph([G EXCEPT !.instructor[frame.course] = None])
    /\ pc' = "idle"
    /\ frame' = NoFrame
    /\ UNCHANGED <<constructed, last>>
    /\ UNCHANGED <<jsonvars, dbvars, _email>>

\* course.py 203
SI_203 ==
    /\ pc = "si203"
    /\ SetGraph(Course_set_instructor_local(G, frame.course, frame.instr))
    /\ pc' = "si204"
    /\ UNCHANGED <<constructed, last, frame>>
    /\ UNCHANGED <<jsonvars, dbvars, _email>>

\* course.py 204-205
SI_204 ==
    /\ pc = "si204"
    /\ SetGraph(IF ~InList(frame.course, assigned_courses[frame.instr])
                THEN Instructor_add_course_local(G, frame.instr, frame.course)
                ELSE G)
    /\ pc' = "si207"
    /\ UNCHANGED <<constructed, last, frame>>
    /\ UNCHANGED <<jsonvars, dbvars, _email>>

\* course.py 207-208, then the return
SI_207 ==
    /\ pc = "si207"
    /\ SetGraph(Course_set_instructor_cleanup(G, frame.course, frame.old, frame.instr))
    /\ pc' = "idle"
    /\ frame' = NoFrame
    /\ UNCHANGED <<constructed, last>>
    /\ UNCHANGED <<jsonvars, dbvars, _email>>

\* instructor.py 123-124: "if not course: return" (a Course object is truthy)
AC_Call(i, c) ==
    /\ pc = "idle"
    /\ c \in constructed
    /\ Called("assign_course", c, i)
    /\ frame' = [course |-> c, instr |-> i, old |-> None]
    /\ pc' = "ac125"
    /\ UNCHANGED graphvars
    /\ UNCHANGED <<jsonvars, dbvars, _email>>

\* instructor.py 125-126
AC_125 ==
    /\ pc = "ac125"
    /\ SetGraph(IF ~InList(frame.course, assigned_courses[frame.instr])
                THEN Instructor_add_course_local(G, frame.instr, frame.course)
                ELSE G)
    /\ pc' = "ac127"
    /\ UNCHANGED <<constructed, last, frame>>
    /\ UNCHANGED <<jsonvars, dbvars, _email>>

\* instructor.py 127-128: the identity test and old = course.instructor
AC_127 ==
    /\ pc = "ac127"
    /\ IF instructor[frame.course] # frame.instr
       THEN /\ frame' = [frame EXCEPT !.old = instructor[frame.course]]
            /\ pc' = "ac129"
       ELSE /\ frame' = NoFrame
            /\ pc' = "idle"
    /\ UNCHANGED <<graphvars, last>>
    /\ UNCHANGED <<jsonvars, dbvars, _email>>

\* instructor.py 129
AC_129 ==
    /\ pc = "ac129"
    /\ SetGraph(Course_set_instructor_local(G, frame.course, frame.instr))
    /\ pc' = "ac130"
    /\ UNCHANGED <<constructed, last, frame>>
    /\ UNCHANGED <<jsonvars, dbvars, _email>>

\* instructor.py 130-131, then the return
AC_130 ==
    /\ pc = "ac130"
    /\ SetGraph(Instructor_assign_course_cleanup(G, frame.course, frame.old, frame.instr))
    /\ pc' = "idle"
    /\ frame' = NoFrame
    /\ UNCHANGED <<constructed, last>>
    /\ UNCHANGED <<jsonvars, dbvars, _email>>

\* between calls, a course may be constructed
StepNewCourse(c, i) == pc = "idle" /\ NewCourse(c, i)

NextSteps ==
    \/ \E c \in Courses, i \in Instructors \cup {None} : StepNewCourse(c, i)
    \/ \E c \in Courses, i \in Instructors \cup {None} : SI_Call(c, i)
    \/ SI_198
    \/ SI_200
    \/ SI_203
    \/ SI_204
    \/ SI_207
    \/ \E c \in Courses, i \in Instructors : AC_Call(i, c)
    \/ AC_125
    \/ AC_127
    \/ AC_129
    \/ AC_130

SpecSteps == Init /\ [][NextSteps]_vars

-----------------------------------------------------------------------------
(* save_to_json statement by statement, load_from_json, and the            *)
(* specifications built from them.                                          *)

\* the iterables a caller can pass to save everything: every order
Orders(S) == {q \in [1..Cardinality(S) -> S] : {q[k] : k \in 1..Cardinality(S)} = S}

\* json_store.py 53-61: the payload, the path, the parent folder, the temp path
Save_Begin(ss, is, cs) ==
    /\ jphase = "build"
    /\ save.pc = "idle"
    /\ save' = [pc |-> "open", data |-> save_data(G, ss, is, cs),
                path |-> DestPath, before |-> files[DestPath]]
    /\ UNCHANGED <<graphvars, last, stepvars, files, jphase, loaded, dbvars, _email>>

\* json_store.py 62, write_text: open(tmp, "w") creates or truncates the file
Save_Open ==
    /\ save.pc = "open"
    /\ files' = [files EXCEPT ![TmpPath(save.path)] =
                     [exists |-> TRUE, data |-> save.data, len |-> 0]]
    /\ save' = [save EXCEPT !.pc = "write"]
    /\ UNCHANGED <<graphvars, last, stepvars, jphase, loaded, dbvars, _email>>

\* json_store.py 62, write_text: the text reaches the file chunk by chunk;
\* after the last chunk the file is closed
Save_Write ==
    /\ save.pc = "write"
    /\ files[TmpPath(save.path)].len < NumChunks
    /\ files' = [files EXCEPT ![TmpPath(save.path)].len = @ + 1]
    /\ save' = [save EXCEPT !.pc =
                    IF files[TmpPath(save.path)].len + 1 = NumChunks
                    THEN "replace" ELSE "write"]
    /\ UNCHANGED <<graphvars, last, stepvars, jphase, loaded, dbvars, _email>>

\* json_store.py 63, tmp.replace(p): one rename
Save_Replace ==
    /\ save.pc = "replace"
    /\ files' = IF TmpPath(save.path) = save.path THEN files
                ELSE [files EXCEPT ![save.path] = files[TmpPath(save.path)],
                                   ![TmpPath(save.path)] = Absent]
    /\ save' = [save EXCEPT !.pc = "idle"]
    /\ jphase' = "saved"
    /\ UNCHANGED <<graphvars, last, stepvars, loaded, dbvars, _email>>

\* the process stops somewhere inside save_to_json
Crash ==
    /\ save.pc \in {"open", "write", "replace"}
    /\ save' = [save EXCEPT !.pc = "stopped"]
    /\ UNCHANGED <<graphvars, last, stepvars, files, jphase, loaded, dbvars, _email>>

\* the program goes on after a save, or is started again after a stop
Resume ==
    /\ jphase = "saved" \/ save.pc = "stopped"
    /\ jphase' = "build"
    /\ save' = NoSave
    /\ UNCHANGED <<graphvars, last, stepvars, files, loaded, dbvars, _email>>

\* load_from_json(path) on the saved file
Load ==
    /\ jphase = "saved"
    /\ save.pc = "idle"
    /\ loaded' = load_from_json(files[DestPath])
    /\ jphase' = "loaded"
    /\ UNCHANGED <<graphvars, last, stepvars, files, save, dbvars, _email>>

\* the public calls that build the graph before it is saved
Building == jphase = "build" /\ save.pc = "idle"

RT_NewCourse(c, i)        == Building /\ NewCourse(c, i)
RT_AddStudent(c, s)       == Building /\ AddStudent(c, s)
RT_RemoveStudent(c, s)    == Building /\ RemoveStudent(c, s)
RT_RegisterCourse(s, c)   == Building /\ RegisterCourse(s, c)
RT_UnregisterCourse(s, c) == Building /\ UnregisterCourse(s, c)
RT_SetInstructor(c, i)    == Building /\ SetInstructor(c, i)
RT_AssignCourse(i, c)     == Building /\ AssignCourse(i, c)

\* build a graph, save it in full, load it back
NextRoundTrip ==
    \/ \E c \in Courses, i \in Instructors \cup {None} : RT_NewCourse(c, i)
    \/ \E c \in Courses, s \in Students : RT_AddStudent(c, s)
    \/ \E c \in Courses, s \in Students : RT_RemoveStudent(c, s)
    \/ \E c \in Courses, s \in Students : RT_RegisterCourse(s, c)
    \/ \E c \in Courses, s \in Students : RT_UnregisterCourse(s, c)
    \/ \E c \in Courses, i \in Instructors \cup {None} : RT_SetInstructor(c, i)
    \/ \E c \in Courses, i \in Instructors : RT_AssignCourse(i, c)
    \/ \E ss \in Orders(Students), is \in Orders(Instructors),
          cs \in Orders(constructed) : Save_Begin(ss, is, cs)
    \/ Save_Open
    \/ Save_Write
    \/ Save_Replace
    \/ Load

SpecRoundTrip == Init /\ [][NextRoundTrip]_vars

\* save after save, with the process free to stop inside any of them
NextSave ==
    \/ \E c \in Courses, i \in Instructors \cup {None} : RT_NewCourse(c, i)
    \/ \E ss \in Orders(Students), is \in Orders(Instructors),
          cs \in Orders(constructed) : Save_Begin(ss, is, cs)
    \/ Save_Open
    \/ Save_Write
    \/ Save_Replace
    \/ Crash
    \/ Resume

SpecSave == Init /\ [][NextSave]_vars

(* Loading a document that was not written by save_to_json: it lists every *)
(* entity and carries up to MaxRefs id references, resolvable or not.      *)

MaxRefs == 3

DanglingStudent    == "S999"
DanglingInstructor == "I999"
DanglingCourse     == "EECE999"

\* the document at the path
Doc == files[DestPath].data

RECURSIVE SeqSum(_)
SeqSum(q) == IF q = <<>> THEN 0 ELSE Head(q) + SeqSum(Tail(q))

\* the id references the document carries
NumRefs(d) ==
    SeqSum([k \in 1..Len(d.students) |-> Len(d.students[k].registered_course_ids)])
    + SeqSum([k \in 1..Len(d.instructors) |->
                 Len(d.instructors[k].assigned_course_ids)])
    + SeqSum([k \in 1..Len(d.courses) |->
                 Len(d.courses[k].enrolled_student_ids)
                 + (IF d.courses[k].instructor_id = None THEN 0 ELSE 1)])

Editing == jphase = "saved" /\ save.pc = "idle" /\ NumRefs(Doc) < MaxRefs

SetDoc(d) ==
    /\ files' = [files EXCEPT ![DestPath] = Complete(d)]
    /\ UNCHANGED <<graphvars, last, stepvars, save, jphase, loaded, dbvars, _email>>

Doc_AddRegistered(k, cid) ==
    /\ Editing
    /\ SetDoc([Doc EXCEPT !.students[k].registered_course_ids = Append(@, cid)])

Doc_AddEnrolled(k, sid) ==
    /\ Editing
    /\ SetDoc([Doc EXCEPT !.courses[k].enrolled_student_ids = Append(@, sid)])

Doc_AddAssigned(k, cid) ==
    /\ Editing
    /\ SetDoc([Doc EXCEPT !.instructors[k].assigned_course_ids = Append(@, cid)])

Doc_SetInstructorId(k, iid) ==
    /\ Editing
    /\ Doc.courses[k].instructor_id = None
    /\ SetDoc([Doc EXCEPT !.courses[k].instructor_id = iid])

BaseDoc == save_data(EmptyGraph, <<"S001", "S002">>, <<"I100", "I200">>,
                     <<"EECE435", "EECE455">>)

InitLoad ==
    /\ constructed = {}
    /\ enrolled_students  = EmptyGraph.enrolled_students
    /\ registered_courses = EmptyGraph.registered_courses
    /\ assigned_courses   = EmptyGraph.assigned_courses
    /\ instructor         = EmptyGraph.instructor
    /\ last = NoCall
    /\ _email = NewPersons
    /\ pc = "idle"
    /\ frame = NoFrame
    /\ files = [p \in Paths |-> IF p = DestPath THEN Complete(BaseDoc) ELSE Absent]
    /\ save = NoSave
    /\ jphase = "saved"
    /\ loaded = NotLoaded
    /\ db = NewRepository
    /\ db_last = NoDbCall
    /\ dm = NewManager
    /\ dm_last = NoDmCall

NextLoad ==
    \/ \E k \in 1..Len(Doc.students), cid \in Courses \cup {DanglingCourse} :
          Doc_AddRegistered(k, cid)
    \/ \E k \in 1..Len(Doc.courses), sid \in Students \cup {DanglingStudent} :
          Doc_AddEnrolled(k, sid)
    \/ \E k \in 1..Len(Doc.instructors), cid \in Courses \cup {DanglingCourse} :
          Doc_AddAssigned(k, cid)
    \/ \E k \in 1..Len(Doc.courses), iid \in Instructors \cup {DanglingInstructor} :
          Doc_SetInstructorId(k, iid)
    \/ Load

SpecLoad == InitLoad /\ [][NextLoad]_vars

-----------------------------------------------------------------------------
(* Claims about the entity graph *)

\* C1: for every student s and course c, s is in c.enrolled_students if and
\* only if c is in s.registered_courses, after any sequence of public calls.
C1_StudentCourseSymmetry ==
    \A s \in Students, c \in Courses :
        InList(s, enrolled_students[c]) <=> InList(c, registered_courses[s])

\* a removal ran on an enrolled pair while another enrollment stays
C1_Witness ==
    /\ last.op \in {"remove_student", "unregister_course"}
    /\ last.was
    /\ \E s \in Students, c \in Courses : InList(s, enrolled_students[c])

\* C2: for every instructor i and course c, c is in i.assigned_courses if and
\* only if c.instructor is i.
C2_InstructorCourseConsistency ==
    \A i \in Instructors, c \in Courses :
        InList(c, assigned_courses[i]) <=> instructor[c] = i

\* assign_course took a course over from another instructor
C2_Witness ==
    /\ last.op = "assign_course"
    /\ last.old \in Instructors
    /\ last.old # last.x
    /\ instructor[last.c] = last.x

\* the instructors that list course c
Owners(c) == {i \in Instructors : InList(c, assigned_courses[i])}

\* C3 as stated: in every state, also between the statements of
\* set_instructor and assign_course, course.instructor lists the course and
\* at most one instructor lists it.
C3_Original ==
    \A c \in Courses :
        /\ instructor[c] # None => InList(c, assigned_courses[instructor[c]])
        /\ Cardinality(Owners(c)) <= 1

\* C3 amended: the one-instructor-per-course invariant holds whenever no
\* set_instructor / assign_course call is in progress; while one runs, only
\* the course it works on may break it, and that course is listed by no
\* instructor other than its previous and its new one.
C3_Amended ==
    \A c \in Courses :
        /\ (pc = "idle" \/ c # frame.course) =>
               /\ instructor[c] # None => InList(c, assigned_courses[instructor[c]])
               /\ Cardinality(Owners(c)) <= 1
               /\ \A i \in Owners(c) : instructor[c] = i
        /\ (pc # "idle" /\ c = frame.course) =>
               Owners(c) \subseteq ({frame.instr, frame.old, instructor[c]} \ {None})

\* a reassignment from one instructor to another has returned
C3_Witness ==
    /\ pc = "idle"
    /\ last.op \in {"set_instructor", "assign_course"}
    /\ last.old \in Instructors
    /\ instructor[last.c] \in Instructors \ {last.old}
    /\ instructor[last.c] = last.x

\* C4: after c.add_student(s) the pair is linked on both sides, a second
\* c.add_student(s) changes nothing, and no enrolled_students or
\* registered_courses list holds a duplicate.
C4_AddStudentIdempotent ==
    /\ \A c \in Courses : NoDup(enrolled_students[c])
    /\ \A s \in Students : NoDup(registered_courses[s])
    /\ \A c \in constructed, s \in Students :
          LET g1 == Course_add_student(G, c, s)
              g2 == Course_add_student(g1, c, s)
          IN  /\ InList(s, g1.enrolled_students[c])
              /\ InList(c, g1.registered_courses[s])
              /\ g2 = g1
    /\ last.op = "add_student" =>
          /\ InList(last.x, enrolled_students[last.c])
          /\ InList(last.c, registered_courses[last.x])

\* add_student ran on a student that was already enrolled
C4_Witness ==
    /\ last.op = "add_student"
    /\ last.was
    /\ InList(last.x, enrolled_students[last.c])

\* no list.remove raised
NotRaised(g) ==
    /\ \A c \in Courses : g.enrolled_students[c] # ValueError
    /\ \A s \in Students : g.registered_courses[s] # ValueError
    /\ \A i \in Instructors : g.assigned_courses[i] # ValueError

\* C5: after s.unregister_course(c) or c.remove_student(s) the pair is linked
\* on neither side; on a pair that was not enrolled the call changes nothing
\* and does not raise.
C5_UnregisterRemoves ==
    /\ \A c \in constructed, s \in Students :
          LET g1 == Student_unregister_course(G, s, c)
              g2 == Course_remove_student(G, c, s)
          IN  /\ ~InList(s, g1.enrolled_students[c])
              /\ ~InList(c, g1.registered_courses[s])
              /\ ~InList(s, g2.enrolled_students[c])
              /\ ~InList(c, g2.registered_courses[s])
              /\ NotRaised(g1) /\ NotRaised(g2)
              /\ ~InList(s, enrolled_students[c]) => (g1 = G /\ g2 = G)
    /\ last.op \in {"unregister_course", "remove_student"} =>
          /\ ~InList(last.x, enrolled_students[last.c])
          /\ ~InList(last.c, registered_courses[last.x])
          /\ NotRaised(G)

\* unregister_course ran on an enrolled pair
C5_Witness ==
    /\ last.op = "unregister_course"
    /\ last.was
    /\ ~InList(last.x, enrolled_students[last.c])

\* C6: after c.set_instructor(i1) then c.set_instructor(i2) with i1 # i2,
\* c.instructor is i2, c is not in i1.assigned_courses and is in
\* i2.assigned_courses exactly once; c.set_instructor(c.instructor) changes
\* nothing; c.set_instructor(None) leaves c.instructor None and c absent from
\* the previous instructor's list.
C6_Reassignment ==
    /\ \A c \in constructed, i1 \in Instructors :
        \A i2 \in Instructors \ {i1} :
          LET g1 == Course_set_instructor(G, c, i1)
              g2 == Course_set_instructor(g1, c, i2)
          IN  /\ g2.instructor[c] = i2
              /\ ~InList(c, g2.assigned_courses[i1])
              /\ Count(c, g2.assigned_courses[i2]) = 1
    /\ \A c \in constructed :
          LET g3 == Course_set_instructor(G, c, None)
          IN  /\ Course_set_instructor(G, c, instructor[c]) = G
              /\ g3.instructor[c] = None
              /\ instructor[c] # None =>
                     ~InList(c, g3.assigned_courses[instructor[c]])
    /\ (last.op = "set_instructor" /\ last.x # last.old) =>
          /\ instructor[last.c] = last.x
          /\ last.old # None => ~InList(last.c, assigned_courses[last.old])
          /\ last.x # None => Count(last.c, assigned_courses[last.x]) = 1

\* set_instructor moved a course from one instructor to another
C6_Witness ==
    /\ last.op = "set_instructor"
    /\ last.old \in Instructors
    /\ last.x \in Instructors \ {last.old}
    /\ instructor[last.c] = last.x

-----------------------------------------------------------------------------
(* Claims about the JSON codec *)

\* C7: for a graph built with the public calls and saved in full,
\* load_from_json(save_to_json(graph)) returns the same student, instructor
\* and course id sets, and every enrollment and every assignment of the
\* original graph is present in the reloaded graph, compared by id.
C7_RoundTrip ==
    jphase = "loaded" =>
        /\ loaded.status = "ok"
        /\ loaded.students = {norm_id(s) : s \in Students}
        /\ loaded.instructors = {norm_id(i) : i \in Instructors}
        /\ loaded.courses = {norm_id(c) : c \in constructed}
        /\ \A s \in Students, c \in Courses :
              /\ InList(s, enrolled_students[c]) =>
                     InList(norm_id(s), loaded.graph.enrolled_students[norm_id(c)])
              /\ InList(c, registered_courses[s]) =>
                     InList(norm_id(c), loaded.graph.registered_courses[norm_id(s)])
        /\ \A i \in Instructors, c \in Courses :
              /\ InList(c, assigned_courses[i]) =>
                     InList(norm_id(c), loaded.graph.assigned_courses[norm_id(i)])
              /\ instructor[c] = i =>
                     loaded.graph.instructor[norm_id(c)] = norm_id(i)

\* the graph of test_json_roundtrip's shape was saved and loaded: a course
\* with two students and an instructor who has both courses
C7_Witness ==
    /\ jphase = "loaded"
    /\ \E c \in Courses : Len(enrolled_students[c]) = 2
    /\ \E i \in Instructors : Len(assigned_courses[i]) = 2
    /\ \E s \in Students : Len(registered_courses[s]) = 2

\* C8: whenever the process stops inside save_to_json, the destination holds
\* its complete previous content (or is absent if it did not exist) or the
\* complete new document, never a partly written one.
C8_AtomicSave ==
    /\ files[DestPath].exists => IsComplete(files[DestPath])
    /\ save.pc # "idle" =>
           \/ files[save.path] = save.before
           \/ files[save.path] = Complete(save.data)
    /\ save.before.exists => IsComplete(save.before)

\* the process stopped with the temporary file partly written, while the
\* destination held an older, different document
C8_Witness ==
    /\ save.pc = "stopped"
    /\ files[TmpPath(DestPath)].exists
    /\ files[TmpPath(DestPath)].len \in 1..(NumChunks - 1)
    /\ save.before.exists
    /\ save.before.data # save.data
    /\ files[DestPath] = save.before

\* the entities a document lists
DocStudents(d)    == {d.students[k].student_id : k \in 1..Len(d.students)}
DocInstructors(d) == {d.instructors[k].instructor_id : k \in 1..Len(d.instructors)}
DocCourses(d)     == {d.courses[k].course_id : k \in 1..Len(d.courses)}

\* the document records the enrollment of s in c, on either side
RecordedEnrollment(d, s, c) ==
    \/ \E k \in 1..Len(d.students) :
          d.students[k].student_id = s /\ InList(c, d.students[k].registered_course_ids)
    \/ \E k \in 1..Len(d.courses) :
          d.courses[k].course_id = c /\ InList(s, d.courses[k].enrolled_student_ids)

\* the document records the assignment of c to i, on either side
RecordedAssignment(d, i, c) ==
    \/ \E k \in 1..Len(d.courses) :
          d.courses[k].course_id = c /\ d.courses[k].instructor_id = i
    \/ \E k \in 1..Len(d.instructors) :
          d.instructors[k].instructor_id = i
          /\ InList(c, d.instructors[k].assigned_course_ids)

\* some relationship id of the document names no entity of the document
HasDangling(d) ==
    \/ \E s \in {DanglingStudent}, c \in DocCourses(d) : RecordedEnrollment(d, s, c)
    \/ \E s \in DocStudents(d), c \in {DanglingCourse} : RecordedEnrollment(d, s, c)
    \/ \E i \in {DanglingInstructor}, c \in DocCourses(d) : RecordedAssignment(d, i, c)
    \/ \E i \in DocInstructors(d), c \in {DanglingCourse} : RecordedAssignment(d, i, c)

\* the load did not raise, returned every entity, and linked loaded entities only
LoadedLeniently(d) ==
    /\ loaded.status = "ok"
    /\ loaded.students = DocStudents(d)
    /\ loaded.instructors = DocInstructors(d)
    /\ loaded.courses = DocCourses(d)
    /\ \A c \in Courses :
          /\ \A k \in 1..Len(loaded.graph.enrolled_students[c]) :
                 loaded.graph.enrolled_students[c][k] \in loaded.students
          /\ loaded.graph.instructor[c] \in loaded.instructors \cup {None}
    /\ \A s \in Students : \A k \in 1..Len(loaded.graph.registered_courses[s]) :
          loaded.graph.registered_courses[s][k] \in loaded.courses
    /\ \A i \in Instructors : \A k \in 1..Len(loaded.graph.assigned_courses[i]) :
          loaded.graph.assigned_courses[i][k] \in loaded.courses

\* every resolvable recorded enrollment is loaded, on both sides
EnrollmentsLoaded(d) ==
    \A s \in DocStudents(d), c \in DocCourses(d) :
        RecordedEnrollment(d, s, c) =>
            /\ InList(s, loaded.graph.enrolled_students[c])
            /\ InList(c, loaded.graph.registered_courses[s])

\* C9 as stated: a document with a relationship id that does not resolve
\* loads without raising, the link is omitted, and every entity and every
\* resolvable link is loaded.
C9_Original ==
    (jphase = "loaded" /\ HasDangling(Doc)) =>
        /\ LoadedLeniently(Doc)
        /\ EnrollmentsLoaded(Doc)
        /\ \A i \in DocInstructors(Doc), c \in DocCourses(Doc) :
              RecordedAssignment(Doc, i, c) =>
                  /\ loaded.graph.instructor[c] = i
                  /\ InList(c, loaded.graph.assigned_courses[i])

\* the instructors of the document recorded for course c
RecordedFor(d, c) == {i \in DocInstructors(d) : RecordedAssignment(d, i, c)}

\* the instructor dicts whose assigned_course_ids list course c
Listing(d, c) ==
    {k \in 1..Len(d.instructors) : InList(c, d.instructors[k].assigned_course_ids)}

\* of several instructors recorded for c, the one the load keeps: the last
\* instructor dict listing c, else the course's own instructor_id
Kept(d, c) ==
    IF Listing(d, c) # {}
    THEN d.instructors[CHOOSE k \in Listing(d, c) :
                           \A j \in Listing(d, c) : j <= k].instructor_id
    ELSE CHOOSE i \in RecordedFor(d, c) : TRUE

\* C9 amended: a document in the export format (valid fields, normalized
\* ids) with a relationship id that does not resolve loads without raising,
\* the link is omitted, and every entity, every resolvable enrollment and,
\* for each course, the resolvable assignment to one instructor is loaded:
\* when the document records several instructors for one course, only the
\* one named last by an instructor's assigned_course_ids (else by the
\* course's instructor_id) is kept.
C9_Amended ==
    (jphase = "loaded" /\ HasDangling(Doc)) =>
        /\ LoadedLeniently(Doc)
        /\ EnrollmentsLoaded(Doc)
        /\ \A c \in DocCourses(Doc) :
              RecordedFor(Doc, c) # {} =>
                  /\ loaded.graph.instructor[c] = Kept(Doc, c)
                  /\ InList(c, loaded.graph.assigned_courses[Kept(Doc, c)])

\* a document with a dangling course id ahead of a resolvable one in the
\* same list, and a resolvable assignment, was loaded
C9_Witness ==
    /\ jphase = "loaded"
    /\ loaded.status = "ok"
    /\ \E k \in 1..Len(Doc.students) :
          /\ Len(Doc.students[k].registered_course_ids) = 2
          /\ Doc.students[k].registered_course_ids[1] = DanglingCourse
          /\ Doc.students[k].registered_course_ids[2] \in loaded.courses
          /\ InList(Doc.students[k].student_id,
                    loaded.graph.enrolled_students[
                        Doc.students[k].registered_course_ids[2]])
    /\ \E c \in DocCourses(Doc) : loaded.graph.instructor[c] # None

-----------------------------------------------------------------------------
(* The repository's public methods as calls on one long-lived connection.  *)

MaxPayloadRows == 2

SeqsUpTo(S, n) == UNION {[1..k -> S] : k \in 0..n}

\* the names the rows of an imported file carry
PayloadNames == {"Alice"}

StudentRows    == [student_id : DbStudentIds, name : PayloadNames, age : Ages,
                   email : Emails]
InstructorRows == [instructor_id : DbInstructorIds, name : PayloadNames, age : Ages,
                   email : Emails]
CourseRows     == [course_id : DbCourseIds, course_name : PayloadNames,
                   i_id : DbInstructorIds \cup {None}]
RegistrationRows == [s_id : DbStudentIds, c_id : DbCourseIds]

\* the JSON files import_from_json is given: any rows, MaxPayloadRows in all
Payloads ==
    {p \in [students : SeqsUpTo(StudentRows, MaxPayloadRows),
            instructors : SeqsUpTo(InstructorRows, MaxPayloadRows),
            courses : SeqsUpTo(CourseRows, MaxPayloadRows),
            registrations : SeqsUpTo(RegistrationRows, MaxPayloadRows)] :
        Len(p.students) + Len(p.instructors) + Len(p.courses)
        + Len(p.registrations) <= MaxPayloadRows}

\* SQLiteRepository.export_to_json: the document written, one per row order
\* the four SELECTs may return
Repo_export_to_json(d) ==
    [students : Orders(d.STUDENTS), instructors : Orders(d.INSTRUCTORS),
     courses : Orders(d.COURSES), registrations : Orders(d.REGISTRATION)]

\* the call returns or raises: the connection keeps what the call left
DbCall(op, a, b, r) ==
    /\ db' = r.db
    /\ db_last' = [op |-> op, a |-> a, b |-> b, result |-> r.exc]
    /\ UNCHANGED <<graphvars, last, stepvars, jsonvars, dm, dm_last, _email>>

AddStudentRow(id, name, age, email) ==
    DbCall("add_student", id, None, Repo_add_student(db, id, name, age, email))

UpdateStudentRow(id, name, age, email) ==
    DbCall("update_student", id, None, Repo_update_student(db, id, name, age, email))

DeleteStudentRow(id) ==
    DbCall("delete_student", id, None, Repo_delete_student(db, id))

AddInstructorRow(id, name, age, email) ==
    DbCall("add_instructor", id, None, Repo_add_instructor(db, id, name, age, email))

UpdateInstructorRow(id, name, age, email) ==
    DbCall("update_instructor", id, None,
           Repo_update_instructor(db, id, name, age, email))

DeleteInstructorRow(id) ==
    DbCall("delete_instructor", id, None, Repo_delete_instructor(db, id))

AddCourseRow(id, name, i_id) ==
    DbCall("add_course", id, i_id, Repo_add_course(db, id, name, i_id))

UpdateCourseRow(id, name, i_id) ==
    DbCall("update_course", id, i_id, Repo_update_course(db, id, name, i_id))

DeleteCourseRow(id) ==
    DbCall("delete_course", id, None, Repo_delete_course(db, id))

RegisterStudent(s_id, c_id) ==
    DbCall("register_student", s_id, c_id, Repo_register_student(db, s_id, c_id))

UnregisterStudent(s_id, c_id) ==
    DbCall("unregister_student", s_id, c_id, Repo_unregister_student(db, s_id, c_id))

ImportFromJson(payload) ==
    DbCall("import_from_json", None, None, Repo_import_from_json(db, payload))

\* export_to_json, then import_from_json of the file it wrote
ExportThenImport(doc) ==
    DbCall("export_import", None, None, Repo_import_from_json(db, doc))

NextDB ==
    \/ \E id \in DbStudentIds, n \in Names, a \in Ages, e \in Emails :
          AddStudentRow(id, n, a, e)
    \/ \E id \in DbStudentIds, n \in Names \cup {None}, a \in Ages \cup {NoneInt},
          e \in Emails \cup {None} : UpdateStudentRow(id, n, a, e)
    \/ \E id \in DbStudentIds : DeleteStudentRow(id)
    \/ \E id \in DbInstructorIds, n \in Names, a \in Ages, e \in Emails :
          AddInstructorRow(id, n, a, e)
    \/ \E id \in DbInstructorIds, n \in Names \cup {None}, a \in Ages \cup {NoneInt},
          e \in Emails \cup {None} : UpdateInstructorRow(id, n, a, e)
    \/ \E id \in DbInstructorIds : DeleteInstructorRow(id)
    \/ \E id \in DbCourseIds, n \in Names, i \in DbInstructorIds \cup {None} :
          AddCourseRow(id, n, i)
    \/ \E id \in DbCourseIds, n \in Names \cup {None},
          i \in DbInstructorIds \cup {None} : UpdateCourseRow(id, n, i)
    \/ \E id \in DbCourseIds : DeleteCourseRow(id)
    \/ \E s \in DbStudentIds, c \in DbCourseIds : RegisterStudent(s, c)
    \/ \E s \in DbStudentIds, c \in DbCourseIds : UnregisterStudent(s, c)
    \/ \E payload \in Payloads : ImportFromJson(payload)
    \/ \E doc \in Repo_export_to_json(db) : ExportThenImport(doc)

SpecDB == Init /\ [][NextDB]_vars

-----------------------------------------------------------------------------
(* The manager's public methods, and the two stores side by side.          *)

\* the call returns or raises: the database file keeps what was committed
DmCall(op, a, r) ==
    /\ dm' = r.db
    /\ dm_last' = [op |-> op, a |-> a, result |-> r.exc]
    /\ UNCHANGED <<graphvars, last, stepvars, jsonvars, db, db_last, _email>>

NextDM ==
    \/ \E id \in DmStudentIds, n \in DmNames, a \in Ages, e \in DmEmails :
          DmCall("create_student", id, DM_create_student(dm, n, a, e, id))
    \/ \E old \in DmStudentIds, n \in DmNames, a \in Ages, e \in DmEmails,
          new \in DmStudentIds :
          DmCall("update_student", old, DM_update_student(dm, old, n, a, e, new))
    \/ \E id \in DmStudentIds : DmCall("delete_student", id, DM_delete_student(dm, id))
    \/ \E id \in DmInstructorIds, n \in DmNames, a \in Ages, e \in DmEmails :
          DmCall("create_instructor", id, DM_create_instructor(dm, n, a, e, id))
    \/ \E old \in DmInstructorIds, n \in DmNames, a \in Ages, e \in DmEmails,
          new \in DmInstructorIds :
          DmCall("update_instructor", old, DM_update_instructor(dm, old, n, a, e, new))
    \/ \E id \in DmInstructorIds :
          DmCall("delete_instructor", id, DM_delete_instructor(dm, id))
    \/ \E id \in DmCourseIds, n \in DmNames, i \in DmInstructorIds \cup {None} :
          DmCall("create_course", id, DM_create_course(dm, id, n, i))
    \/ \E old \in DmCourseIds, id \in DmCourseIds, n \in DmNames,
          i \in DmInstructorIds \cup {None} :
          DmCall("update_course", old, DM_update_course(dm, old, id, n, i))
    \/ \E id \in DmCourseIds : DmCall("delete_course", id, DM_delete_course(dm, id))
    \/ \E s \in DmStudentIds, c \in DmCourseIds :
          DmCall("register_student", <<s, c>>, DM_register_student(dm, s, c))
    \/ \E s \in DmStudentIds, c \in DmCourseIds :
          DmCall("unregister_student", <<s, c>>, DM_unregister_student(dm, s, c))

SpecDM == Init /\ [][NextDM]_vars

\* a program uses one of the two stores
NextStores ==
    \/ dm_last = NoDmCall /\ NextDB
    \/ db_last = NoDbCall /\ NextDM

SpecStores == Init /\ [][NextStores]_vars

-----------------------------------------------------------------------------
(* Claims about the SQLite repository *)

\* C10: in any state reachable by SQLiteRepository calls, after
\* delete_student(id) returns there is no STUDENTS row with that id and no
\* REGISTRATION row whose s_id is id: get_registrations(s_id=id) is empty.
C10_DeleteStudentCascade ==
    db_last.op = "delete_student" =>
        /\ ~HasStudent(db, db_last.a)
        /\ get_registrations(db, db_last.a, None) = {}

\* the contents of the four tables
Tables(d) ==
    [STUDENTS |-> d.STUDENTS, INSTRUCTORS |-> d.INSTRUCTORS,
     COURSES |-> d.COURSES, REGISTRATION |-> d.REGISTRATION]

\* C11: register_student(s_id, c_id) raises ValueError and leaves every table
\* unchanged whenever s_id is not in STUDENTS or c_id is not in COURSES; when
\* both exist, the pair (s_id, c_id) is in REGISTRATION after the call.
C11_RegisterStudentNotFound ==
    /\ \A s \in DbStudentIds, c \in DbCourseIds :
          LET r == Repo_register_student(db, s, c) IN
          IF HasStudent(db, s) /\ HasCourse(db, c)
          THEN r.exc = "ok" /\ [s_id |-> s, c_id |-> c] \in r.db.REGISTRATION
          ELSE r.exc = "ValueError" /\ r.db = db
    /\ db_last.op = "register_student" =>
          IF HasStudent(db, db_last.a) /\ HasCourse(db, db_last.b)
          THEN /\ db_last.result = "ok"
               /\ [s_id |-> db_last.a, c_id |-> db_last.b] \in db.REGISTRATION
          ELSE db_last.result = "ValueError"

\* register_student was refused for a missing student while another student
\* is registered
C11_Witness ==
    /\ db_last.op = "register_student"
    /\ db_last.result = "ValueError"
    /\ ~HasStudent(db, db_last.a)
    /\ db.REGISTRATION # {}

\* the rows a payload describes
PayloadTables(p) ==
    [STUDENTS |-> {p.students[k] : k \in 1..Len(p.students)},
     INSTRUCTORS |-> {p.instructors[k] : k \in 1..Len(p.instructors)},
     COURSES |-> {p.courses[k] : k \in 1..Len(p.courses)},
     REGISTRATION |-> {p.registrations[k] : k \in 1..Len(p.registrations)}]

\* C13: import_from_json is all-or-nothing: either it reports success and
\* the four tables hold exactly the payload's rows, or it reports failure and
\* the four tables hold exactly what they held before the call; nothing is
\* left uncommitted.
C13_ImportAllOrNothing ==
    /\ \A p \in Payloads :
          LET r == Repo_import_from_json(db, p) IN
          /\ ~r.db.in_transaction
          /\ \/ r.exc = "True" /\ Tables(r.db) = PayloadTables(p)
             \/ r.exc = "False" /\ Tables(r.db) = Tables(db)
    /\ db_last.op = "import_from_json" =>
          /\ ~db.in_transaction
          /\ db_last.result \in {"True", "False"}

\* an import failed on a store that held a registration, and the registration
\* is still there
C13_Witness ==
    /\ db_last.op = "import_from_json"
    /\ db_last.result = "False"
    /\ db.REGISTRATION # {}

\* values no stored row holds, to make every written column visible
OtherName  == "Carol"
OtherEmail == "carol@example.com"

\* the row with primary key id, after the call, is the row before it with
\* exactly the supplied columns replaced
StudentUpdated(before, after, id, name, age, email) ==
    /\ {r \in after : r.student_id # id} = {r \in before : r.student_id # id}
    /\ \A r \in before : r.student_id = id =>
          {q \in after : q.student_id = id} =
              {[r EXCEPT !.name  = IF Truthy(name) THEN name ELSE @,
                         !.age   = IF age # NoneInt THEN age ELSE @,
                         !.email = IF Truthy(email) THEN email ELSE @]}
    /\ ~(\E r \in before : r.student_id = id) => ~\E q \in after : q.student_id = id

InstructorUpdated(before, after, id, name, age, email) ==
    /\ {r \in after : r.instructor_id # id} = {r \in before : r.instructor_id # id}
    /\ \A r \in before : r.instructor_id = id =>
          {q \in after : q.instructor_id = id} =
              {[r EXCEPT !.name  = IF Truthy(name) THEN name ELSE @,
                         !.age   = IF age # NoneInt THEN age ELSE @,
                         !.email = IF Truthy(email) THEN email ELSE @]}
    /\ ~(\E r \in before : r.instructor_id = id) =>
          ~\E q \in after : q.instructor_id = id

CourseUpdated(before, after, id, course_name, i_id) ==
    /\ {r \in after : r.course_id # id} = {r \in before : r.course_id # id}
    /\ \A r \in before : r.course_id = id =>
          {q \in after : q.course_id = id} =
              {[r EXCEPT !.course_name = IF Truthy(course_name) THEN course_name ELSE @,
                         !.i_id = IF i_id # None THEN i_id ELSE @]}
    /\ ~(\E r \in before : r.course_id = id) => ~\E q \in after : q.course_id = id

\* C15: update_student / update_instructor / update_course change only the
\* columns whose argument was supplied, only on the row with the given id;
\* every column passed as None (a course's i_id included), every other row
\* and every other table is unchanged; a call supplying no fields changes
\* nothing; a refused update changes nothing.
C15_PartialUpdate ==
    /\ \A id \in DbStudentIds, n \in Names \cup {OtherName, None},
          a \in Ages \cup {21, NoneInt}, e \in Emails \cup {OtherEmail, None} :
          LET r == Repo_update_student(db, id, n, a, e) IN
          /\ r.exc = "ok"
          /\ StudentUpdated(db.STUDENTS, r.db.STUDENTS, id, n, a, e)
          /\ r.db.INSTRUCTORS = db.INSTRUCTORS /\ r.db.COURSES = db.COURSES
          /\ r.db.REGISTRATION = db.REGISTRATION
          /\ (n = None /\ a = NoneInt /\ e = None) => r.db = db
    /\ \A id \in DbInstructorIds, n \in Names \cup {OtherName, None},
          a \in Ages \cup {21, NoneInt}, e \in Emails \cup {OtherEmail, None} :
          LET r == Repo_update_instructor(db, id, n, a, e) IN
          /\ r.exc = "ok"
          /\ InstructorUpdated(db.INSTRUCTORS, r.db.INSTRUCTORS, id, n, a, e)
          /\ r.db.STUDENTS = db.STUDENTS /\ r.db.COURSES = db.COURSES
          /\ r.db.REGISTRATION = db.REGISTRATION
          /\ (n = None /\ a = NoneInt /\ e = None) => r.db = db
    /\ \A id \in DbCourseIds, n \in Names \cup {OtherName, None},
          i \in DbInstructorIds \cup {None} :
          LET r == Repo_update_course(db, id, n, i) IN
          /\ IF r.exc = "ok"
             THEN CourseUpdated(db.COURSES, r.db.COURSES, id, n, i)
             ELSE r.db.COURSES = db.COURSES
          /\ r.db.STUDENTS = db.STUDENTS /\ r.db.INSTRUCTORS = db.INSTRUCTORS
          /\ r.db.REGISTRATION = db.REGISTRATION
          /\ (n = None /\ i = None) => r.db = db
    /\ (db_last.op \in {"update_student", "update_instructor"}) =>
          db_last.result = "ok"

\* update_student changed the name of one of two stored students
C15_Witness ==
    /\ db_last.op = "update_student"
    /\ db_last.result = "ok"
    /\ \E r1 \in db.STUDENTS, r2 \in db.STUDENTS :
          r1.student_id = db_last.a /\ r2.student_id # db_last.a /\ r1.name # r2.name
    /\ db.COURSES # {}

\* C17: delete_instructor(id) removes the instructor row; every course that
\* referenced id still exists with a null i_id and all its registrations; no
\* other row changes.
C17_DeleteInstructorSetsNull ==
    /\ \A id \in DbInstructorIds :
          LET r == Repo_delete_instructor(db, id) IN
          /\ r.exc = "ok"
          /\ r.db.INSTRUCTORS = {x \in db.INSTRUCTORS : x.instructor_id # id}
          /\ r.db.COURSES = {IF x.i_id = id THEN [x EXCEPT !.i_id = None] ELSE x :
                                 x \in db.COURSES}
          /\ r.db.STUDENTS = db.STUDENTS
          /\ r.db.REGISTRATION = db.REGISTRATION
    /\ db_last.op = "delete_instructor" =>
          /\ ~\E x \in db.INSTRUCTORS : x.instructor_id = db_last.a
          /\ ~\E x \in db.COURSES : x.i_id = db_last.a

\* C19: for any store state, export_to_json, import_from_json of that file
\* and a second export_to_json give two documents with the same sets of
\* students, instructors, courses (same i_id per course) and registrations.
C19_ExportImportRoundTrip ==
    /\ \A doc \in Repo_export_to_json(db) :
          LET r == Repo_import_from_json(db, doc) IN
          /\ r.exc = "True"
          /\ \A doc2 \in Repo_export_to_json(r.db) :
                PayloadTables(doc2) = PayloadTables(doc)
          /\ Tables(r.db) = Tables(db)
    /\ db_last.op = "export_import" => db_last.result = "True"

\* a store with a registration and a course that has an instructor was
\* exported and imported back
C19_Witness ==
    /\ db_last.op = "export_import"
    /\ db_last.result = "True"
    /\ db.REGISTRATION # {}
    /\ \E c \in db.COURSES : c.i_id # None

-----------------------------------------------------------------------------
(* Claims about both stores *)

\* C12: calling register_student twice (or more) with the same existing
\* (student id, course id) pair never raises and leaves exactly one
\* registration row for that pair, in SQLiteRepository and DatabaseManager.
C12_DuplicateRegistration ==
    /\ \A s \in DbStudentIds, c \in DbCourseIds :
          (HasStudent(db, s) /\ HasCourse(db, c)) =>
              LET r1 == Repo_register_student(db, s, c)
                  r2 == Repo_register_student(r1.db, s, c)
              IN  /\ r1.exc = "ok" /\ r2.exc = "ok"
                  /\ Cardinality(get_registrations(r2.db, s, c)) = 1
                  /\ Tables(r2.db) = Tables(r1.db)
    /\ \A s \in DmStudentIds, c \in DmCourseIds :
          ((\E r \in dm.students : r.student_id = s)
           /\ (\E r \in dm.courses : r.course_id = c)) =>
              LET r1 == DM_register_student(dm, s, c)
                  r2 == DM_register_student(r1.db, s, c)
              IN  /\ r1.exc \in {"True", "False"} /\ r2.exc = "False"
                  /\ r2.db.registrations[<<s, c>>] = 1
                  /\ r2.db = r1.db
    /\ \A pr \in DmStudentIds \X DmCourseIds : dm.registrations[pr] <= 1
    /\ dm_last.op = "register_student" => dm_last.result \in {"True", "False"}
    /\ (db_last.op = "register_student" /\ db_last.result # "ValueError") =>
          /\ db_last.result = "ok"
          /\ Cardinality(get_registrations(db, db_last.a, db_last.b)) = 1

\* the manager was asked again for a registration it already holds
C12_Witness ==
    /\ dm_last.op = "register_student"
    /\ dm_last.result = "False"
    /\ dm.registrations[dm_last.a] = 1

\* C14: a create inserts a new row, and fails with a uniqueness violation
\* that leaves the store unchanged whenever a row with the same primary key,
\* or a student / instructor row with the same email, already exists
\* (SQLiteRepository.add_* over init_db's schema, DatabaseManager.create_*).
C14_CreateUniqueness ==
    /\ \A id \in DbStudentIds, n \in Names, a \in Ages, e \in Emails :
          LET r == Repo_add_student(db, id, n, a, e) IN
          IF \E x \in db.STUDENTS : x.student_id = id \/ x.email = e
          THEN r.exc = "IntegrityError" /\ Tables(r.db) = Tables(db)
          ELSE r.exc = "ok" /\ HasStudent(r.db, id)
    /\ \A id \in DbInstructorIds, n \in Names, a \in Ages, e \in Emails :
          LET r == Repo_add_instructor(db, id, n, a, e) IN
          IF \E x \in db.INSTRUCTORS : x.instructor_id = id \/ x.email = e
          THEN r.exc = "IntegrityError" /\ Tables(r.db) = Tables(db)
          ELSE r.exc = "ok" /\ \E x \in r.db.INSTRUCTORS : x.instructor_id = id
    /\ \A id \in DbCourseIds, n \in Names :
          LET r == Repo_add_course(db, id, n, None) IN
          IF HasCourse(db, id)
          THEN r.exc = "IntegrityError" /\ Tables(r.db) = Tables(db)
          ELSE r.exc = "ok" /\ HasCourse(r.db, id)
    /\ \A id \in DmStudentIds, n \in DmNames, a \in Ages, e \in DmEmails :
          LET r == DM_create_student(dm, n, a, e, id) IN
          IF \E x \in dm.students : x.student_id = id \/ x.email = e
          THEN r.exc = "IntegrityError" /\ r.db = dm
          ELSE r.exc = "ok" /\ \E x \in r.db.students : x.student_id = id
    /\ \A id \in DmInstructorIds, n \in DmNames, a \in Ages, e \in DmEmails :
          LET r == DM_create_instructor(dm, n, a, e, id) IN
          IF \E x \in dm.instructors : x.instructor_id = id \/ x.email = e
          THEN r.exc = "IntegrityError" /\ r.db = dm
          ELSE r.exc = "ok" /\ \E x \in r.db.instructors : x.instructor_id = id
    /\ \A id \in DmCourseIds, n \in DmNames :
          LET r == DM_create_course(dm, id, n, None) IN
          IF \E x \in dm.courses : x.course_id = id
          THEN r.exc = "IntegrityError" /\ r.db = dm
          ELSE r.exc = "ok" /\ \E x \in r.db.courses : x.course_id = id
    /\ (db_last.op = "add_student" /\ db_last.result = "ok") =>
          \A x \in db.STUDENTS, y \in db.STUDENTS : x.email = y.email => x = y

\* C16: DatabaseManager.update_instructor(old_id, ..., new_id) with new_id
\* different from old_id, for an instructor who has courses, succeeds, and
\* afterwards every course that referenced old_id references new_id and no
\* course references a non-existent instructor.
C16_InstructorIdCascade ==
    \A x \in dm.instructors : \A new \in DmInstructorIds \ {x.instructor_id} :
        LET old  == x.instructor_id
            refs == {c.course_id : c \in {c \in dm.courses : c.instructor_id = old}}
            r    == DM_update_instructor(dm, old, x.name, x.age, x.email, new)
        IN  (refs # {} /\ ~\E y \in dm.instructors : y.instructor_id = new) =>
                /\ r.exc # "IntegrityError"
                /\ \A c \in r.db.courses :
                      /\ c.course_id \in refs => c.instructor_id = new
                      /\ c.instructor_id # None =>
                            \E y \in r.db.instructors : y.instructor_id = c.instructor_id

\* C18: after delete_course(id) returns, in SQLiteRepository and in
\* DatabaseManager, there is no course row with that id and no registration
\* row referencing it; every student row, every instructor row and every
\* registration of another course is unchanged.
C18_DeleteCourseCascade ==
    /\ \A id \in DbCourseIds :
          LET r == Repo_delete_course(db, id) IN
          /\ ~HasCourse(r.db, id)
          /\ get_registrations(r.db, None, id) = {}
          /\ r.db.STUDENTS = db.STUDENTS /\ r.db.INSTRUCTORS = db.INSTRUCTORS
          /\ {x \in r.db.REGISTRATION : x.c_id # id} = {x \in db.REGISTRATION : x.c_id # id}
    /\ \A id \in DmCourseIds :
          LET r == DM_delete_course(dm, id) IN
          /\ ~\E c \in r.db.courses : c.course_id = id
          /\ ~RegsOfCourse(r.db, id)
          /\ r.db.students = dm.students /\ r.db.instructors = dm.instructors
          /\ \A pr \in DmStudentIds \X DmCourseIds :
                pr[2] # id => r.db.registrations[pr] = dm.registrations[pr]
    /\ db_last.op = "delete_course" =>
          ~HasCourse(db, db_last.a) /\ get_registrations(db, None, db_last.a) = {}
    /\ dm_last.op = "delete_course" =>
          ~(\E c \in dm.courses : c.course_id = dm_last.a) /\ ~RegsOfCourse(dm, dm_last.a)

-----------------------------------------------------------------------------
(* Constructors called with raw arguments: validation, then normalization, *)
(* then the wiring.  A pattern is the set of raw values it matches.        *)

RawIds         == {"S001", " S001 ", "I100", "EECE435", "EECE455", " EECE435 ",
                   "eece435", ""}
RawPersonNames == {"Alice", "Al"}
RawCourseNames == {"Software Tools", "AB"}
RawAges        == {20, -1}
RawEmails      == {"alice@example.com", "alice"}

\* COURSE_ID_RE.fullmatch(v.strip())
is_valid_course_id(v) == v \in {"EECE435", "EECE455", " EECE435 "}

\* STUDENT_ID_RE.fullmatch(v.strip())
is_valid_student_id(v) == v \in {"S001", " S001 ", "I100"}

\* INSTRUCTOR_ID_RE.fullmatch(v.strip())
is_valid_instructor_id(v) == v \in {"S001", " S001 ", "I100"}

\* COURSE_NAME_RE.fullmatch(v.strip()): 3 to 60 characters
is_valid_course_name(v) == v \in {"Alice", "Software Tools"}

\* PERSON_NAME_RE.fullmatch(v.strip()): a letter, 1 to 58 more, a letter
is_valid_person_name(v) == v \in {"Alice", "Software Tools"}

\* int(v) >= 0
is_non_negative_int(v) == v >= 0

\* Person.__init__: the three guards, in order
Person_init(name, age, email) ==
    IF ~is_valid_person_name(name) THEN "ValueError"
    ELSE IF ~is_non_negative_int(age) THEN "ValueError"
    ELSE IF ~is_valid_email(email) THEN "ValueError"
    ELSE "ok"

\* Student.__init__: Person.__init__, the id guard, an empty course list;
\* no other object is touched
Student_init(g, name, age, email, student_id) ==
    IF Person_init(name, age, email) # "ok" THEN [g |-> g, exc |-> "ValueError"]
    ELSE IF ~is_valid_student_id(student_id) THEN [g |-> g, exc |-> "ValueError"]
    ELSE [g |-> g, exc |-> "ok"]

\* Instructor.__init__: Person.__init__, the id guard, an empty course list;
\* no other object is touched
Instructor_init(g, name, age, email, instructor_id) ==
    IF Person_init(name, age, email) # "ok" THEN [g |-> g, exc |-> "ValueError"]
    ELSE IF ~is_valid_instructor_id(instructor_id) THEN [g |-> g, exc |-> "ValueError"]
    ELSE [g |-> g, exc |-> "ok"]

\* a slip: the name is checked after the instructor is wired
Course_new_wire_first(g, course_id, course_name, i) ==
    IF ~is_valid_course_id(course_id) THEN [g |-> g, exc |-> "ValueError"]
    ELSE IF ~is_valid_course_name(course_name)
    THEN [g |-> Course_init(g, norm_id(course_id), i), exc |-> "ValueError"]
    ELSE [g |-> Course_init(g, norm_id(course_id), i), exc |-> "ok"]

\* Course.__init__ from its raw arguments: the two guards, then the fields
\* and the wiring
Course_new(g, course_id, course_name, i) ==
    IF ~is_valid_course_id(course_id) THEN [g |-> g, exc |-> "ValueError"]
    ELSE IF ~is_valid_course_name(course_name) THEN [g |-> g, exc |-> "ValueError"]
    ELSE [g |-> Course_init(g, norm_id(course_id), i), exc |-> "ok"]

\* the constructor call that ran last
Constructed(op, id, i, exc) ==
    last' = [op |-> op, c |-> id, x |-> i, old |-> None, was |-> FALSE,
             raised |-> exc # "ok"]

ConstructCourse(course_id, course_name, i) ==
    LET r == Course_new(G, course_id, course_name, i) IN
    /\ r.exc = "ok" => norm_id(course_id) \notin constructed
    /\ constructed' = IF r.exc = "ok" THEN constructed \cup {norm_id(course_id)}
                      ELSE constructed
    /\ SetGraph(r.g)
    /\ Constructed("Course.__init__", course_id, i, r.exc)
    /\ UNCHANGED <<stepvars, jsonvars, dbvars, _email>>

ConstructStudent(name, age, email, student_id) ==
    LET r == Student_init(G, name, age, email, student_id) IN
    /\ SetGraph(r.g)
    /\ Constructed("Student.__init__", student_id, None, r.exc)
    /\ UNCHANGED <<constructed, stepvars, jsonvars, dbvars, _email>>

ConstructInstructor(name, age, email, instructor_id) ==
    LET r == Instructor_init(G, name, age, email, instructor_id) IN
    /\ SetGraph(r.g)
    /\ Constructed("Instructor.__init__", instructor_id, None, r.exc)
    /\ UNCHANGED <<constructed, stepvars, jsonvars, dbvars, _email>>

NextConstruct ==
    \/ Next
    \/ \E id \in RawIds, n \in RawCourseNames, i \in Instructors \cup {None} :
          ConstructCourse(id, n, i)
    \/ \E n \in RawPersonNames, a \in RawAges, e \in RawEmails, id \in RawIds :
          ConstructStudent(n, a, e, id)
    \/ \E n \in RawPersonNames, a \in RawAges, e \in RawEmails, id \in RawIds :
          ConstructInstructor(n, a, e, id)

SpecConstruct == Init /\ [][NextConstruct]_vars

\* C20: a Student, Instructor or Course constructor called with any invalid
\* field raises ValueError and modifies no existing entity; Course(course_id,
\* course_name, instructor) with an invalid id or name leaves
\* instructor.assigned_courses unchanged.
C20_ConstructionAllOrNothing ==
    /\ \A id \in RawIds, n \in RawCourseNames, i \in Instructors \cup {None} :
          (~is_valid_course_id(id) \/ ~is_valid_course_name(n)) =>
              LET r == Course_new(G, id, n, i) IN r.exc = "ValueError" /\ r.g = G
    /\ \A n \in RawPersonNames, a \in RawAges, e \in RawEmails, id \in RawIds :
          /\ (~is_valid_person_name(n) \/ ~is_non_negative_int(a) \/ ~is_valid_email(e)
              \/ ~is_valid_student_id(id)) =>
                 LET r == Student_init(G, n, a, e, id) IN r.exc = "ValueError" /\ r.g = G
          /\ (~is_valid_person_name(n) \/ ~is_non_negative_int(a) \/ ~is_valid_email(e)
              \/ ~is_valid_instructor_id(id)) =>
                 LET r == Instructor_init(G, n, a, e, id)
                 IN  r.exc = "ValueError" /\ r.g = G
    /\ \A c \in Courses \ constructed :
          /\ instructor[c] = None
          /\ \A i \in Instructors : ~InList(c, assigned_courses[i])
    /\ (last.op = "Course.__init__" /\ ~last.raised) =>
          is_valid_course_id(last.c) /\ norm_id(last.c) \in constructed

\* Course(...) was refused for an instructor who already has a course, and
\* the instructor's list still holds just that course
C20_Witness ==
    /\ last.op = "Course.__init__"
    /\ last.raised
    /\ last.x \in Instructors
    /\ Len(assigned_courses[last.x]) = 1
    /\ constructed # Courses

-----------------------------------------------------------------------------
(* import_from_json given a path: what the path holds decides how far the  *)
(* call gets.                                                              *)

\* paths that hold no export of the store: no file, a file that is not JSON,
\* a JSON list, and a student row without its "name"
BadFiles == {"missing", "malformed", "wrong_shape", "missing_keys"}

\* SQLiteRepository.import_from_json on such a path: the existence test
\* returns False; json.load runs before the try; payload.get and s["name"]
\* raise after the four DELETEs, inside the try
Repo_import_bad_file(d, file) ==
    IF file = "missing" THEN [db |-> d, exc |-> "False"]
    ELSE IF file = "malformed" THEN [db |-> d, exc |-> "JSONDecodeError"]
    ELSE LET d1 == Sql_pragma_foreign_keys(d, FALSE)
             d2 == Sql_delete_registrations(d1, d1.REGISTRATION)
             d3 == Sql_delete_courses(d2, {r.course_id : r \in d2.COURSES})
             d4 == Sql_delete_instructors(d3, {r.instructor_id : r \in d3.INSTRUCTORS})
             d5 == Sql_delete_students(d4, {r.student_id : r \in d4.STUDENTS})
         IN  [db |-> Sql_rollback(d5, d), exc |-> "False"]

ImportBadFile(file) ==
    DbCall("import_from_json", file, None, Repo_import_bad_file(db, file))

NextFiles ==
    \/ NextDB
    \/ \E file \in BadFiles : ImportBadFile(file)

SpecFiles == Init /\ [][NextFiles]_vars

\* no REGISTRATION row without its student and its course, no COURSES.i_id
\* without its instructor
ReferentialIntegrity(d) ==
    /\ \A r \in d.REGISTRATION : HasStudent(d, r.s_id) /\ HasCourse(d, r.c_id)
    /\ \A c \in d.COURSES :
          c.i_id = None \/ \E i \in d.INSTRUCTORS : i.instructor_id = c.i_id

\* C21: in every state reachable through SQLiteRepository's public methods,
\* import_from_json with any payload included, every REGISTRATION row
\* references an existing student and an existing course and every
\* COURSES.i_id is NULL or an existing instructor's id; an import that would
\* break this is rejected with the store unchanged.
C21_ReferentialIntegrity ==
    /\ ReferentialIntegrity(db)
    /\ \A p \in Payloads :
          ~ReferentialIntegrity(PayloadTables(p)) =>
              LET r == Repo_import_from_json(db, p)
              IN  r.exc = "False" /\ Tables(r.db) = Tables(db)

\* C26: import_from_json returns True on success and False on every failure
\* (missing file, malformed JSON file, payload of the wrong shape or with
\* missing keys, constraint violation) and never raises to the caller.
C26_ImportReportsOutcome ==
    /\ \A file \in BadFiles : Repo_import_bad_file(db, file).exc = "False"
    /\ \A p \in Payloads : Repo_import_from_json(db, p).exc \in {"True", "False"}
    /\ db_last.op = "import_from_json" => db_last.result \in {"True", "False"}

\* C27: after import_from_json returns, with True or with False, foreign-key
\* enforcement is on again on the repository's connection: delete_student and
\* delete_course still remove the dependent registrations, delete_instructor
\* still nulls the courses' instructor reference, and add_course with an
\* unknown instructor id is still rejected.
C27_ForeignKeysSurviveImport ==
    db_last.op \in {"import_from_json", "export_import"} =>
        /\ db.foreign_keys
        /\ \A id \in DbStudentIds :
              get_registrations(Repo_delete_student(db, id).db, id, None) = {}
        /\ \A id \in DbCourseIds :
              get_registrations(Repo_delete_course(db, id).db, None, id) = {}
        /\ \A id \in DbInstructorIds :
              ~\E c \in Repo_delete_instructor(db, id).db.COURSES : c.i_id = id
        /\ \A id \in DbCourseIds, n \in Names, i \in DbInstructorIds :
              (~\E x \in db.INSTRUCTORS : x.instructor_id = i) =>
                  LET r == Repo_add_course(db, id, n, i)
                  IN  r.exc # "ok" /\ Tables(r.db) = Tables(db)

-----------------------------------------------------------------------------
(* Claims about the entry points of a relationship *)

\* both bidirectional invariants, on a graph value
Bidirectional(g) ==
    /\ \A s \in Students, c \in Courses :
          InList(s, g.enrolled_students[c]) <=> InList(c, g.registered_courses[s])
    /\ \A i \in Instructors, c \in Courses :
          InList(c, g.assigned_courses[i]) <=> g.instructor[c] = i

\* C22: from any state satisfying both bidirectional invariants,
\* s.register_course(c) gives the same state as c.add_student(s),
\* s.unregister_course(c) the same as c.remove_student(s), and
\* i.assign_course(c) the same as c.set_instructor(i): the same c.instructor
\* and the same contents and order of every list.
C22_EntryPointsEquivalent ==
    Bidirectional(G) =>
        \A c \in constructed :
            /\ \A s \in Students :
                  /\ Student_register_course(G, s, c) = Course_add_student(G, c, s)
                  /\ Student_unregister_course(G, s, c) = Course_remove_student(G, c, s)
            /\ \A i \in Instructors :
                  Instructor_assign_course(G, i, c) = Course_set_instructor(G, c, i)

\* register_course linked a student who already had another course, so the
\* position of the new entry matters
C22_Witness ==
    /\ Bidirectional(G)
    /\ last.op = "register_course"
    /\ ~last.was
    /\ Len(registered_courses[last.x]) = 2
    /\ registered_courses[last.x][2] = last.c
    /\ \E i \in Instructors : assigned_courses[i] # <<>>

-----------------------------------------------------------------------------
(* Claims about loading a document that records a link more than once *)

\* the places where a document records a link: an entry of a student's
\* registered_course_ids, of a course's enrolled_student_ids, a course's
\* instructor_id, an entry of an instructor's assigned_course_ids
Recordings(d) ==
    {<<"registered", k, j>> : k \in 1..Len(d.students), j \in 1..MaxRefs + 1}
    \cup {<<"enrolled", k, j>> : k \in 1..Len(d.courses), j \in 1..MaxRefs + 1}
    \cup {<<"instructor", k, 1>> : k \in 1..Len(d.courses)}
    \cup {<<"assigned", k, j>> : k \in 1..Len(d.instructors), j \in 1..MaxRefs + 1}

\* the recording exists in the document
Recorded(d, r) ==
    CASE r[1] = "registered" -> r[3] <= Len(d.students[r[2]].registered_course_ids)
      [] r[1] = "enrolled"   -> r[3] <= Len(d.courses[r[2]].enrolled_student_ids)
      [] r[1] = "instructor" -> d.courses[r[2]].instructor_id # None
      [] OTHER               -> r[3] <= Len(d.instructors[r[2]].assigned_course_ids)

\* the link a recording stands for
LinkOf(d, r) ==
    CASE r[1] = "registered" ->
             <<"enrollment", d.students[r[2]].student_id,
               d.students[r[2]].registered_course_ids[r[3]]>>
      [] r[1] = "enrolled" ->
             <<"enrollment", d.courses[r[2]].enrolled_student_ids[r[3]],
               d.courses[r[2]].course_id>>
      [] r[1] = "instructor" ->
             <<"assignment", d.courses[r[2]].instructor_id, d.courses[r[2]].course_id>>
      [] OTHER ->
             <<"assignment", d.instructors[r[2]].instructor_id,
               d.instructors[r[2]].assigned_course_ids[r[3]]>>

\* the entries of lst at the positions in P, in order
RECURSIVE Pick(_, _, _)
Pick(lst, P, j) ==
    IF j > Len(lst) THEN <<>>
    ELSE (IF j \in P THEN <<lst[j]>> ELSE <<>>) \o Pick(lst, P, j + 1)

\* the document d with only the recordings in K
Keep(d, K) ==
    [d EXCEPT
       !.students = [k \in 1..Len(d.students) |->
           [d.students[k] EXCEPT !.registered_course_ids =
               Pick(@, {j \in 1..Len(@) : <<"registered", k, j>> \in K}, 1)]],
       !.courses = [k \in 1..Len(d.courses) |->
           [d.courses[k] EXCEPT
               !.instructor_id = IF <<"instructor", k, 1>> \in K THEN @ ELSE None,
               !.enrolled_student_ids =
                   Pick(@, {j \in 1..Len(@) : <<"enrolled", k, j>> \in K}, 1)]],
       !.instructors = [k \in 1..Len(d.instructors) |->
           [d.instructors[k] EXCEPT !.assigned_course_ids =
               Pick(@, {j \in 1..Len(@) : <<"assigned", k, j>> \in K}, 1)]]]

\* the documents that record each link of d once
RecordedOnce(d) ==
    LET R == {r \in Recordings(d) : Recorded(d, r)} IN
    {Keep(d, K) : K \in {K \in SUBSET R :
        \A r \in R : Cardinality({q \in K : LinkOf(d, q) = LinkOf(d, r)}) = 1}}

\* some link is recorded more than once
RecordedTwice(d) ==
    \E r, q \in {x \in Recordings(d) : Recorded(d, x)} :
        r # q /\ LinkOf(d, r) = LinkOf(d, q)

\* C23: when a document records the same link in several source lists, or
\* repeats it inside one list, load_from_json leaves no duplicate entry in
\* any enrolled_students, registered_courses or assigned_courses list, and
\* the graph equals the one loaded from a document that records each link
\* once.
C23_LoadIdempotent ==
    (jphase = "loaded" /\ RecordedTwice(Doc)) =>
        /\ loaded.status = "ok"
        /\ \A c \in Courses : NoDup(loaded.graph.enrolled_students[c])
        /\ \A s \in Students : NoDup(loaded.graph.registered_courses[s])
        /\ \A i \in Instructors : NoDup(loaded.graph.assigned_courses[i])
        /\ \E d \in RecordedOnce(Doc) : load_document(d).graph = loaded.graph

\* a document that records one enrollment on the student's and on the
\* course's side was loaded, and the course lists the student
C23_Witness ==
    /\ jphase = "loaded"
    /\ loaded.status = "ok"
    /\ \E k \in 1..Len(Doc.students), h \in 1..Len(Doc.courses) :
          /\ InList(Doc.courses[h].course_id, Doc.students[k].registered_course_ids)
          /\ InList(Doc.students[k].student_id, Doc.courses[h].enrolled_student_ids)
          /\ InList(Doc.students[k].student_id,
                    loaded.graph.enrolled_students[Doc.courses[h].course_id])

-----------------------------------------------------------------------------
(* Person.email assigned through its property *)

\* values assigned to Person.email: valid and normalized, valid with padding
\* and capitals, without "@", empty
EmailValues == {"alice@example.com", "bob@example.com", " Bob@Example.COM ",
                "alice", ""}

\* p.email = value
SetEmail(person, value) ==
    LET r == Person_set_email(_email[person], value) IN
    /\ _email' = [_email EXCEPT ![person] = r.email]
    /\ last' = [op |-> "email.setter", c |-> person, x |-> value,
                old |-> _email[person], was |-> FALSE, raised |-> r.exc # "ok"]
    /\ UNCHANGED <<graphvars, stepvars, jsonvars, dbvars>>

NextPerson ==
    \E person \in Students \cup Instructors, value \in EmailValues :
        SetEmail(person, value)

SpecPerson == Init /\ [][NextPerson]_vars

\* C24: assigning an invalid value to Person.email raises ValueError and
\* leaves the stored email unchanged; assigning a valid value stores its
\* trimmed, lowercase form; the stored email is valid in every reachable
\* state.
C24_EmailRevalidated ==
    /\ \A person \in Students \cup Instructors :
          /\ is_valid_email(_email[person])
          /\ norm_email(_email[person]) = _email[person]
          /\ \A value \in EmailValues :
                LET r == Person_set_email(_email[person], value) IN
                IF is_valid_email(value)
                THEN r.exc = "ok" /\ r.email = norm_email(value)
                ELSE r.exc = "ValueError" /\ r.email = _email[person]
    /\ last.op = "email.setter" =>
          _email[last.c] = IF last.raised THEN last.old ELSE norm_email(last.x)

\* an invalid value was refused for a person whose email had been changed
\* before, and that email is still stored
C24_Witness ==
    /\ last.op = "email.setter"
    /\ last.raised
    /\ _email[last.c] = "bob@example.com"
    /\ \E person \in Students \cup Instructors : _email[person] = "alice@example.com"

-----------------------------------------------------------------------------
(* Claims about the DatabaseManager *)

\* no registrations row without its student and its course, no course
\* without its instructor
DmReferences(m) ==
    /\ \A pr \in DOMAIN m.registrations :
          m.registrations[pr] > 0 =>
              /\ \E s \in m.students : s.student_id = pr[1]
              /\ \E c \in m.courses : c.course_id = pr[2]
    /\ \A c \in m.courses :
          c.instructor_id = None
          \/ \E r \in m.instructors : r.instructor_id = c.instructor_id

\* C25: after DatabaseManager.delete_instructor(id) returns, the instructor
\* row, every course that referenced id and every registration of those
\* courses are gone, nothing references a deleted row, and all other
\* students, instructors, courses and registrations are unchanged.
C25_DeleteInstructorStrict ==
    /\ \A id \in DmInstructorIds :
          LET r    == DM_delete_instructor(dm, id)
              gone == {c \in dm.courses : c.instructor_id = id}
          IN  /\ r.exc \in {"True", "False"}
              /\ r.db.instructors = {x \in dm.instructors : x.instructor_id # id}
              /\ r.db.courses = dm.courses \ gone
              /\ r.db.students = dm.students
              /\ \A pr \in DOMAIN dm.registrations :
                    r.db.registrations[pr] =
                        IF \E c \in gone : c.course_id = pr[2]
                        THEN 0 ELSE dm.registrations[pr]
              /\ DmReferences(r.db)
    /\ dm_last.op = "delete_instructor" =>
          /\ ~\E x \in dm.instructors : x.instructor_id = dm_last.a
          /\ ~\E c \in dm.courses : c.instructor_id = dm_last.a
          /\ DmReferences(dm)

\* delete_instructor removed an instructor while another instructor's course
\* keeps its registration
C25_Witness ==
    /\ dm_last.op = "delete_instructor"
    /\ dm_last.result = "True"
    /\ dm.courses # {}
    /\ \E pr \in DOMAIN dm.registrations : dm.registrations[pr] > 0

\* C30: DatabaseManager.update_instructor and update_course return True
\* exactly when a row with the given old id existed and was updated, and
\* False exactly when no such row existed, however many courses or
\* registrations reference that row.
C30_UpdateResultFlag ==
    /\ \A old \in DmInstructorIds, n \in DmNames, a \in Ages, e \in DmEmails :
          LET r == DM_update_instructor(dm, old, n, a, e, old) IN
          r.exc \in {"True", "False"} =>
              (r.exc = "True" <=> \E x \in dm.instructors : x.instructor_id = old)
    /\ \A old \in DmCourseIds, n \in DmNames, i \in DmInstructorIds \cup {None} :
          LET r == DM_update_course(dm, old, old, n, i) IN
          r.exc \in {"True", "False"} =>
              (r.exc = "True" <=> \E c \in dm.courses : c.course_id = old)

-----------------------------------------------------------------------------
(* Claims about the graph a load returns *)

\* the document records two different instructors for one course, or an
\* enrollment on one side only
Inconsistent(d) ==
    \/ \E c \in DocCourses(d) : Cardinality(RecordedFor(d, c)) > 1
    \/ \E k \in 1..Len(d.students), h \in 1..Len(d.courses) :
          InList(d.courses[h].course_id, d.students[k].registered_course_ids)
          # InList(d.students[k].student_id, d.courses[h].enrolled_student_ids)

\* C28: for any input document, an inconsistent one included, the graph
\* load_from_json returns satisfies both bidirectional invariants and every
\* course has at most one instructor.
C28_LoadConsistent ==
    (jphase = "loaded" /\ loaded.status = "ok") =>
        /\ Bidirectional(loaded.graph)
        /\ \A c \in Courses :
              Cardinality({i \in Instructors :
                              InList(c, loaded.graph.assigned_courses[i])}) <= 1

\* a document that names one instructor in a course's instructor_id and
\* lists the course under another instructor was loaded
C28_Witness ==
    /\ jphase = "loaded"
    /\ loaded.status = "ok"
    /\ Inconsistent(Doc)
    /\ \E h \in 1..Len(Doc.courses), k \in 1..Len(Doc.instructors) :
          /\ Doc.courses[h].instructor_id \in Instructors
          /\ Doc.courses[h].instructor_id # Doc.instructors[k].instructor_id
          /\ InList(Doc.courses[h].course_id, Doc.instructors[k].assigned_course_ids)
          /\ loaded.graph.instructor[Doc.courses[h].course_id]
                 = Doc.instructors[k].instructor_id

-----------------------------------------------------------------------------
(* Claims about what a relationship call leaves alone *)

\* between graphs g and h, only c.enrolled_students and s.registered_courses
\* may differ
EnrollmentFrame(g, h, c, s) ==
    /\ \A c2 \in Courses \ {c} : h.enrolled_students[c2] = g.enrolled_students[c2]
    /\ \A s2 \in Students \ {s} : h.registered_courses[s2] = g.registered_courses[s2]
    /\ h.assigned_courses = g.assigned_courses
    /\ h.instructor = g.instructor

\* between graphs g and h, only c.instructor and the assigned_courses of c's
\* previous instructor and of i may differ; the previous instructor keeps its
\* other courses, in order
AssignmentFrame(g, h, c, i) ==
    LET old == g.instructor[c] IN
    /\ h.enrolled_students = g.enrolled_students
    /\ h.registered_courses = g.registered_courses
    /\ \A c2 \in Courses \ {c} : h.instructor[c2] = g.instructor[c2]
    /\ \A j \in Instructors \ {old, i} : h.assigned_courses[j] = g.assigned_courses[j]
    /\ (old # None /\ old # i) =>
          h.assigned_courses[old] =
              IF InList(c, g.assigned_courses[old])
              THEN ListRemove(g.assigned_courses[old], c) ELSE g.assigned_courses[old]

\* C29: add_student, remove_student, register_course and unregister_course
\* change nothing except c.enrolled_students and s.registered_courses;
\* set_instructor and assign_course change nothing except c.instructor and
\* the assigned_courses of the previous and the new instructor, the previous
\* instructor keeping its other courses in order; scalar fields and all
\* other entities are unchanged.
C29_RelationshipFrame ==
    /\ \A c \in constructed :
          /\ \A s \in Students :
                /\ EnrollmentFrame(G, Course_add_student(G, c, s), c, s)
                /\ EnrollmentFrame(G, Course_remove_student(G, c, s), c, s)
                /\ EnrollmentFrame(G, Student_register_course(G, s, c), c, s)
                /\ EnrollmentFrame(G, Student_unregister_course(G, s, c), c, s)
          /\ \A i \in Instructors \cup {None} :
                AssignmentFrame(G, Course_set_instructor(G, c, i), c, i)
          /\ \A i \in Instructors :
                AssignmentFrame(G, Instructor_assign_course(G, i, c), c, i)
    /\ _email = NewPersons

\* set_instructor moved a course away from an instructor who keeps another
\* course
C29_Witness ==
    /\ last.op = "set_instructor"
    /\ last.old \in Instructors
    /\ last.old # last.x
    /\ instructor[last.c] = last.x
    /\ assigned_courses[last.old] # <<>>

====
